---- MODULE Spec2Model ----
(***************************************************************************)
(* netcollector: command catalog (commander.py) and session dispatchers    *)
(* (dispatcher.py) as a state machine.                                     *)
(*                                                                         *)
(* Python values are rendered as follows.  Optional[T] is a sequence of    *)
(* length at most one: None is <<>>, a present value v is <<v>>.  A dict   *)
(* is a function on its keys.  A formatted message (an f-string) is the    *)
(* sequence of its literal pieces and interpolated values, so that "the    *)
(* message names X" is "X is one of its pieces".  Python True inside a     *)
(* params dict is the string "True".                                       *)
(***************************************************************************)
EXTENDS Integers, Sequences, FiniteSets, TLC

\* ------------------------------------------------------------------ bounds
MaxCollectors == 2
MaxCalls == 2

\* ------------------------------------------------------------ Python values
None == <<>>
Some(v) == <<v>>

Range(s) == {s[i] : i \in DOMAIN s}

RECURSIVE Flatten(_)
Flatten(ss) == IF ss = <<>> THEN <<>> ELSE Head(ss) \o Flatten(Tail(ss))

SeqsUpTo(S, n) == UNION {[1..k -> S] : k \in 0..n}

\* ------------------------------------------------------------- commander.py
EXECUTOR_MAP ==
    (<<"cisco_xe", "interface">> :>
        ("ssh" :> [executor |-> "netmiko", commands |-> <<"show interfaces">>,
                   params |-> ("use_genie" :> "True")]))
 @@ (<<"cisco_asa", "vpn_session">> :>
        ("ssh" :> [executor |-> "netmiko", commands |-> <<"show vpn-sessiondb">>,
                   params |-> ("use_textfsm" :> "True")]))
 @@ (<<"cisco_ios", "bgp_session">> :>
        ("ssh" :> [executor |-> "netmiko", commands |-> <<"show bgp all neighbor">>,
                   params |-> ("use_genie" :> "True")]))
 @@ (<<"cisco_ios", "lldp_neighbors">> :>
        ("ssh" :> [executor |-> "netmiko", commands |-> <<"show lldp neighbors">>,
                   params |-> ("use_textfsm" :> "True")]))
 @@ (<<"cisco_xe", "bgp_session">> :>
        ("ssh" :> [executor |-> "netmiko", commands |-> <<"show ip bgp neighbors">>,
                   params |-> ("use_genie" :> "True")]))
 @@ (<<"juniper_junos", "bgp_session">> :>
        ("netconf" :> [executor |-> "pyez", commands |-> <<"get-bgp-neighbor-information">>,
                       params |-> ("table" :> "NtcBgpTable")]))

\* A caller-supplied executor_map (the third parameter of create_commands):
\* entries with two command texts, an entry without "params" (the direct
\* query mode of the PyEZ driver) and an entry that lists no command text.
CUSTOM_MAP ==
    (<<"cisco_ios", "bgp_session">> :>
        ("ssh" :> [executor |-> "netmiko",
                   commands |-> <<"show bgp all neighbor", "show bgp all summary">>,
                   params |-> ("use_genie" :> "True")]))
 @@ (<<"cisco_ios", "interface">> :>
        ("ssh" :> [executor |-> "netmiko", commands |-> <<>>,
                   params |-> ("use_genie" :> "True")]))
 @@ (<<"juniper_junos", "bgp_session">> :>
        ("netconf" :> [executor |-> "pyez", commands |-> <<"get-bgp-neighbor-information">>,
                       params |-> ("table" :> "NtcBgpTable")]))
 @@ (<<"juniper_junos", "interface">> :>
        ("netconf" :> [executor |-> "pyez", commands |-> <<"get-interface-information">>]))

\* the executor maps a caller may pass, by name
ExecutorMaps == ("EXECUTOR_MAP" :> EXECUTOR_MAP) @@ ("CUSTOM_MAP" :> CUSTOM_MAP)
DeviceTypes == {"cisco_ios", "juniper_junos"}
\* (collector, collection_method) pairs a caller may request
RequestPairs == {<<"bgp_session", "ssh">>, <<"bgp_session", "netconf">>,
                 <<"interface", "ssh">>, <<"interface", "netconf">>}
Requests == SeqsUpTo(RequestPairs, MaxCollectors)

\* Command.id: the default str(uuid.uuid4()) is evaluated when the class
\* body runs, once per process.
CommandDefaultId == "uuid4-at-class-definition"

Command(_command, executor, collector, collection_method, params) ==
    [executor |-> executor, collector |-> collector,
     collection_method |-> collection_method, command |-> _command,
     params |-> params, result |-> None, id |-> CommandDefaultId,
     timestamp |-> None, start_time |-> None, execution_time |-> None]

\* Command.start_timing / Command.stop_timing at clock reading t
start_timing(c, t) == [c EXCEPT !.start_time = Some(t)]
stop_timing(c, t) ==
    [c EXCEPT !.timestamp = Some(t),
              !.execution_time = IF c.start_time # None
                                 THEN Some(t - c.start_time[1]) ELSE @]

\* executor_map[(device_type, collector)][collection_method] raises KeyError
KeyError(device_type, pair, executor_map) ==
    \/ <<device_type, pair[1]>> \notin DOMAIN executor_map
    \/ pair[2] \notin DOMAIN executor_map[<<device_type, pair[1]>>]

CommanderErrorMsg(device_type, pair) ==
    <<"Unable to determine executor for: device_type='", device_type,
      "', collector='", pair[1], "', collection_method=", pair[2]>>

\* mutant of Expand: the command texts of an entry in reverse order
ExpandReversed(directives, pair) ==
    [k \in DOMAIN directives.commands |->
        Command(directives.commands[Len(directives.commands) + 1 - k],
                directives.executor, pair[1], pair[2],
                IF "params" \in DOMAIN directives THEN directives.params ELSE <<>>)]

\* the generator handed to commands.extend(...)
Expand(directives, pair) ==
    [k \in DOMAIN directives.commands |->
        Command(directives.commands[k], directives.executor, pair[1], pair[2],
                IF "params" \in DOMAIN directives THEN directives.params ELSE <<>>)]

\* mutant of Raise: the list built so far reaches the caller
RaiseKeepsPartial(device_type, pair, commands) ==
    [error |-> Some("CommanderError"), msg |-> CommanderErrorMsg(device_type, pair),
     commands |-> commands]

\* raise CommanderError(...): the list built so far is lost with the frame
Raise(device_type, pair, commands) ==
    [error |-> Some("CommanderError"), msg |-> CommanderErrorMsg(device_type, pair),
     commands |-> <<>>]

\* The value of a create_commands call: error is None and commands the
\* returned list, or error is the raised exception and nothing is returned.
RECURSIVE create_commands_loop(_, _, _, _)
create_commands_loop(device_type, collectors, executor_map, commands) ==
    IF collectors = <<>>
    THEN [error |-> None, msg |-> <<>>, commands |-> commands]
    ELSE LET pair == Head(collectors)
         IN IF KeyError(device_type, pair, executor_map)
            THEN Raise(device_type, pair, commands)
            ELSE create_commands_loop(
                    device_type, Tail(collectors), executor_map,
                    commands \o Expand(executor_map[<<device_type, pair[1]>>][pair[2]], pair))

create_commands(device_type, collectors, executor_map) ==
    create_commands_loop(device_type, collectors, executor_map, <<>>)

\* ------------------------------------------------------------ dispatcher.py
JUNOS_CUSTOM_MODULES == "netcollector.extras.junos_tables"
JUNOS_PYEZ_MODULES == "jnpr.junos.op"

Workers == {1, 2}
Hosts == {"r1", "r2"}
NoDev == 0

VARIABLES
    pc,           \* per worker: where its caller / execute() stands
    commands,     \* per worker: the Command list it holds
    routing,      \* per worker: outcome of its last create_commands call
    request,      \* per worker: arguments of its last create_commands call
    driver,       \* per worker: dispatcher class of its current execute call
    connector,    \* per worker: ConnectParams of its current execute call
    idx,          \* per worker: position of the for loop in commands
    dev,          \* per worker: the local `dev` bound by the with statement
    table,        \* per worker: the local `table` (PyEZ table mode)
    exc,          \* per worker: exception in flight
    error,        \* per worker: local `error`
    msg,          \* per worker: local `msg`
    sent,         \* per worker: what the devices saw of the current call
    connects,     \* per worker: connects made by the current call
    lookups,      \* per worker: registry lookups made for the current command
    prev,         \* per worker: summary of its previous execute call
    outter_dev,   \* NetmikoDispatcher.outter_dev (class attribute)
    sessions,     \* the live session handles, by handle number
    now,          \* the clock read by datetime.now()
    calls,        \* execute calls started so far
    input,        \* normalizer / serializer: the function called and its arguments
    output        \* normalizer / serializer: what the call returned or raised

locals == <<driver, connector, idx, dev, table, exc, error, msg, sent, connects,
           lookups>>
caller == <<commands, routing, request, prev>>
shared == <<outter_dev, sessions, now, calls>>
norm == <<input, output>>
vars == <<pc, commands, routing, request, driver, connector, idx, dev, table,
          exc, error, msg, sent, connects, lookups, prev, outter_dev, sessions,
          now, calls, input, output>>

NoRequest == [device_type |-> "", collectors |-> <<>>, executor_map |-> "EXECUTOR_MAP"]
NoConnector == [host |-> "", device_type |-> "", persist |-> FALSE]
\* no normalizer call is in progress
NoCall == [fn |-> ""]
NoOutcome == [kind |-> "", value |-> <<>>, exc |-> None]

\* no poll has started
DispatcherIdle ==
    /\ pc = [w \in Workers |-> "idle"]
    /\ commands = [w \in Workers |-> <<>>]
    /\ routing = [w \in Workers |-> [error |-> None, msg |-> <<>>]]
    /\ request = [w \in Workers |-> NoRequest]
    /\ driver = [w \in Workers |-> ""]
    /\ connector = [w \in Workers |-> NoConnector]
    /\ idx = [w \in Workers |-> 1]
    /\ dev = [w \in Workers |-> NoDev]
    /\ table = [w \in Workers |-> None]
    /\ exc = [w \in Workers |-> None]
    /\ error = [w \in Workers |-> None]
    /\ msg = [w \in Workers |-> <<>>]
    /\ sent = [w \in Workers |-> <<>>]
    /\ connects = [w \in Workers |-> 0]
    /\ lookups = [w \in Workers |-> <<>>]
    /\ prev = [w \in Workers |-> None]
    /\ outter_dev = NoDev
    /\ sessions = <<>>
    /\ now = 0
    /\ calls = 0

Init ==
    /\ DispatcherIdle
    /\ input = NoCall
    /\ output = NoOutcome


\* ------------------------------------------------------------- environment
\* Exceptions the collaborators (netmiko, junos-eznc, importlib) may raise;
\* text is str(err).
ConnectFailure(host) ==
    [type |-> "ConnectError", text |-> <<"cannot connect to ", host>>]
SendFailure(_command) ==
    [type |-> "ReadTimeout", text |-> <<"no answer to ", _command>>]
ReleaseFailure == [type |-> "OSError", text |-> <<"socket is closed">>]
NoneTypeFailure ==
    [type |-> "AttributeError",
     text |-> <<"'NoneType' object has no attribute 'send_command'">>]

\* what a device answers to a command
Output(_command) == <<"output of", _command>>

IsOpen(h) == h # NoDev /\ sessions[h].state = "open"

\* a handle number no live handle has
Fresh == CHOOSE h \in 1..(Cardinality(DOMAIN sessions) + 1) : h \notin DOMAIN sessions

Opened(h, host, drv, w) ==
    (h :> [host |-> host, driver |-> drv, state |-> "open", opener |-> w]) @@ sessions

NoTimes(cs) ==
    \A k \in DOMAIN cs : cs[k].start_time = None /\ cs[k].timestamp = None

\* ------------------------------------------------------------------ caller
Summary(w) ==
    [driver |-> driver[w], host |-> connector[w].host,
     persist |-> connector[w].persist, dev |-> dev[w],
     failed |-> idx[w] <= Len(commands[w])]

\* The caller builds the Command list of its next poll.
CreateCommands(w) ==
    /\ pc[w] = "idle"
    /\ calls < MaxCalls
    /\ \E dt \in DeviceTypes, collectors \in Requests, name \in DOMAIN ExecutorMaps :
          LET r == create_commands(dt, collectors, ExecutorMaps[name])
          IN /\ commands' = [commands EXCEPT ![w] = r.commands]
             /\ routing' = [routing EXCEPT ![w] = [error |-> r.error, msg |-> r.msg]]
             /\ request' = [request EXCEPT ![w] =
                    [device_type |-> dt, collectors |-> collectors, executor_map |-> name]]
             /\ pc' = [pc EXCEPT ![w] = IF r.error = None THEN "built" ELSE "rejected"]
    /\ UNCHANGED <<locals, prev, shared>>
    /\ UNCHANGED norm

\* The poll ends, with the outcome of execute() or with the CommanderError:
\* the caller hands the results on and drops the Command list; the locals of
\* create_commands() and execute() are gone, and so is every session handle nothing
\* refers to any more.  Only differences of clock readings are observable
\* (execution_time), so the clock's origin is moved to the present when no
\* live Command holds a reading.
EndPoll(w) ==
    /\ pc[w] \in {"returned", "rejected"}
    /\ pc' = [pc EXCEPT ![w] = "idle"]
    /\ prev' = [prev EXCEPT ![w] = IF pc[w] = "returned" THEN Some(Summary(w)) ELSE @]
    /\ request' = [request EXCEPT ![w] = NoRequest]
    /\ routing' = [routing EXCEPT ![w] = [error |-> None, msg |-> <<>>]]
    /\ commands' = [commands EXCEPT ![w] = <<>>]
    /\ driver' = [driver EXCEPT ![w] = ""]
    /\ connector' = [connector EXCEPT ![w] = NoConnector]
    /\ idx' = [idx EXCEPT ![w] = 1]
    /\ dev' = [dev EXCEPT ![w] = NoDev]
    /\ table' = [table EXCEPT ![w] = None]
    /\ exc' = [exc EXCEPT ![w] = None]
    /\ error' = [error EXCEPT ![w] = None]
    /\ msg' = [msg EXCEPT ![w] = <<>>]
    /\ sent' = [sent EXCEPT ![w] = <<>>]
    /\ connects' = [connects EXCEPT ![w] = 0]
    /\ lookups' = [lookups EXCEPT ![w] = <<>>]
    /\ LET live == ({outter_dev} \cup {dev'[v] : v \in Workers}
                     \cup {p[1].dev : p \in {prev'[v] : v \in Workers} \ {None}})
                   \cap DOMAIN sessions
       IN sessions' = [h \in live |-> sessions[h]]
    /\ now' = IF \A v \in Workers : NoTimes(commands'[v]) THEN 0 ELSE now
    /\ UNCHANGED <<outter_dev, calls>>
    /\ UNCHANGED norm

\* the dispatcher classes a caller may hand the list to
DriversFor(cs) ==
    IF cs = <<>> THEN {"netmiko", "pyez"} ELSE {cs[k].executor : k \in DOMAIN cs}

EnterExecute(w, drv, host, persist, first) ==
    /\ pc' = [pc EXCEPT ![w] = first]
    /\ driver' = [driver EXCEPT ![w] = drv]
    /\ connector' = [connector EXCEPT ![w] =
            [host |-> host, device_type |-> request[w].device_type, persist |-> persist]]
    /\ idx' = [idx EXCEPT ![w] = 1]
    /\ dev' = [dev EXCEPT ![w] = NoDev]
    /\ table' = [table EXCEPT ![w] = None]
    /\ exc' = [exc EXCEPT ![w] = None]
    /\ error' = [error EXCEPT ![w] = None]
    /\ msg' = [msg EXCEPT ![w] = <<>>]
    /\ sent' = [sent EXCEPT ![w] = <<>>]
    /\ connects' = [connects EXCEPT ![w] = 0]
    /\ lookups' = [lookups EXCEPT ![w] = <<>>]
    /\ calls' = calls + 1
    /\ UNCHANGED <<caller, outter_dev, sessions, now>>
    /\ UNCHANGED norm

\* -------------------------------------------------------- NetmikoDispatcher
\* mutant of NetmikoExcept: line 78, raise NetmikoError(...) from err
NetmikoExceptRaises(e) ==
    IF e = None
    THEN [pc |-> "returned", error |-> None, msg |-> <<>>]
    ELSE [pc |-> "raised", error |-> None, msg |-> <<>>]

\* except Exception as err: ... return error, msg
NetmikoExcept(e) ==
    IF e = None
    THEN [pc |-> "returned", error |-> None, msg |-> <<>>]
    ELSE [pc |-> "returned", error |-> Some("NetmikoError"),
          msg |-> <<"Driver failed execution: ">> \o e[1].text]

NetmikoReturn(w, e) ==
    LET r == NetmikoExcept(e)
    IN /\ pc' = [pc EXCEPT ![w] = r.pc]
       /\ error' = [error EXCEPT ![w] = r.error]
       /\ msg' = [msg EXCEPT ![w] = r.msg]
       /\ exc' = [exc EXCEPT ![w] = e]

\* execute(): error = None; msg = ""; NetmikoDispatcherDev(connector=connector)
NetmikoExecute(w) ==
    /\ pc[w] = "built"
    /\ calls < MaxCalls
    /\ "netmiko" \in DriversFor(commands[w])
    /\ \E host \in Hosts, persist \in BOOLEAN :
          EnterExecute(w, "netmiko", host, persist, "nm_enter")

\* __enter__: if not NetmikoDispatcher.outter_dev
NetmikoEnter(w) ==
    /\ pc[w] = "nm_enter"
    /\ pc' = [pc EXCEPT ![w] = IF outter_dev = NoDev THEN "nm_connect" ELSE "nm_reuse"]
    /\ UNCHANGED <<caller, locals, shared>>
    /\ UNCHANGED norm

\* __enter__: NetmikoDispatcher.outter_dev = ConnectHandler(host=..., ...)
NetmikoConnect(w) ==
    /\ pc[w] = "nm_connect"
    /\ now' = now + 1
    /\ \/ /\ sessions' = Opened(Fresh, connector[w].host, "netmiko", w)
          /\ outter_dev' = Fresh
          /\ connects' = [connects EXCEPT ![w] = @ + 1]
          /\ pc' = [pc EXCEPT ![w] = "nm_reuse"]
          /\ UNCHANGED <<exc, error, msg>>
       \/ /\ NetmikoReturn(w, Some(ConnectFailure(connector[w].host)))
          /\ UNCHANGED <<sessions, outter_dev, connects>>
    /\ UNCHANGED <<caller, driver, connector, idx, dev, table, sent, lookups, calls>>
    /\ UNCHANGED norm

\* __enter__: return NetmikoDispatcher.outter_dev   (bound to `dev`)
NetmikoBind(w) ==
    /\ pc[w] = "nm_reuse"
    /\ dev' = [dev EXCEPT ![w] = outter_dev]
    /\ pc' = [pc EXCEPT ![w] = IF commands[w] = <<>> THEN "nm_exit" ELSE "nm_loop"]
    /\ UNCHANGED <<caller, driver, connector, idx, table, exc, error, msg, sent,
                   connects, lookups, shared>>
    /\ UNCHANGED norm

\* loop body: start_timing(); result = dev.send_command(...); stop_timing()
NetmikoSend(w) ==
    /\ pc[w] = "nm_loop"
    /\ now' = now + 1
    /\ LET c == commands[w][idx[w]]
           h == dev[w]
       IN \/ /\ IsOpen(h)
             /\ commands' = [commands EXCEPT ![w][idx[w]] =
                    stop_timing([start_timing(c, now) EXCEPT
                                    !.result = Some(Output(c.command))], now + 1)]
             /\ sent' = [sent EXCEPT ![w] = Append(@, [i |-> idx[w], h |-> h])]
             /\ idx' = [idx EXCEPT ![w] = @ + 1]
             /\ pc' = [pc EXCEPT ![w] =
                    IF idx[w] = Len(commands[w]) THEN "nm_exit" ELSE "nm_loop"]
             /\ UNCHANGED exc
          \/ /\ commands' = [commands EXCEPT ![w][idx[w]] = start_timing(c, now)]
             /\ sent' = [sent EXCEPT ![w] =
                    IF h = NoDev THEN @ ELSE Append(@, [i |-> idx[w], h |-> h])]
             /\ exc' = [exc EXCEPT ![w] =
                    Some(IF h = NoDev THEN NoneTypeFailure ELSE SendFailure(c.command))]
             /\ pc' = [pc EXCEPT ![w] = "nm_exit"]
             /\ UNCHANGED idx
    /\ UNCHANGED <<routing, request, prev, driver, connector, dev, table, error,
                   msg, connects, lookups, outter_dev, sessions, calls>>
    /\ UNCHANGED norm

\* mutant of NetmikoExit: the session is disconnected whatever persist says
NetmikoExitIgnoresPersist(w) ==
    /\ pc[w] = "nm_exit"
    /\ IF outter_dev = NoDev
       THEN /\ pc' = [pc EXCEPT ![w] = "nm_clear"]
            /\ UNCHANGED <<exc, error, msg, sessions, now>>
       ELSE /\ now' = now + 1
            /\ \/ /\ sessions' = [sessions EXCEPT ![outter_dev].state = "closed"]
                  /\ pc' = [pc EXCEPT ![w] = "nm_clear"]
                  /\ UNCHANGED <<exc, error, msg>>
               \/ /\ sessions' = [sessions EXCEPT ![outter_dev].state = "close_failed"]
                  /\ NetmikoReturn(w, Some(ReleaseFailure))
    /\ UNCHANGED <<caller, driver, connector, idx, dev, table, sent, connects,
                   lookups, outter_dev, calls>>
    /\ UNCHANGED norm

\* __exit__: if not persist: if outter_dev: outter_dev.disconnect()
NetmikoExit(w) ==
    /\ pc[w] = "nm_exit"
    /\ IF connector[w].persist
       THEN /\ NetmikoReturn(w, exc[w])
            /\ UNCHANGED <<sessions, now>>
       ELSE IF outter_dev = NoDev
       THEN /\ pc' = [pc EXCEPT ![w] = "nm_clear"]
            /\ UNCHANGED <<exc, error, msg, sessions, now>>
       ELSE /\ now' = now + 1
            /\ \/ /\ sessions' = [sessions EXCEPT ![outter_dev].state = "closed"]
                  /\ pc' = [pc EXCEPT ![w] = "nm_clear"]
                  /\ UNCHANGED <<exc, error, msg>>
               \/ /\ sessions' = [sessions EXCEPT ![outter_dev].state = "close_failed"]
                  /\ NetmikoReturn(w, Some(ReleaseFailure))
    /\ UNCHANGED <<caller, driver, connector, idx, dev, table, sent, connects,
                   lookups, outter_dev, calls>>
    /\ UNCHANGED norm

\* __exit__: NetmikoDispatcher.outter_dev = None
NetmikoClear(w) ==
    /\ pc[w] = "nm_clear"
    /\ outter_dev' = NoDev
    /\ NetmikoReturn(w, exc[w])
    /\ UNCHANGED <<caller, driver, connector, idx, dev, table, sent, connects,
                   lookups, sessions, now, calls>>
    /\ UNCHANGED norm

Netmiko(w) ==
    \/ NetmikoExecute(w)
    \/ NetmikoEnter(w)
    \/ NetmikoConnect(w)
    \/ NetmikoBind(w)
    \/ NetmikoSend(w)
    \/ NetmikoExit(w)
    \/ NetmikoClear(w)

\* ----------------------------------------------------------- PyEZDispatcher
\* str.split("_") of the collector names in use
Words ==
    ("bgp_session" :> <<"bgp", "session">>)
 @@ ("vpn_session" :> <<"vpn", "session">>)
 @@ ("lldp_neighbors" :> <<"lldp", "neighbors">>)
 @@ ("interface" :> <<"interface">>)

\* protocol = collector.split("_")[0] if "_" in collector else collector
Protocol(collector) ==
    IF Len(Words[collector]) > 1 THEN Words[collector][1] ELSE collector

\* command.params.get("table") is truthy
TableHint(c) == "table" \in DOMAIN c.params /\ c.params["table"] # ""

\* What a registry answers to import_module(f"{registry}.{protocol}") followed
\* by getattr(module, table): the table class, AttributeError,
\* ModuleNotFoundError, or an ImportError raised while the module loads.
TierAnswers == {"found", "no_attribute", "no_module", "import_error"}

ModuleNotFoundError(registry, protocol) ==
    [type |-> "ModuleNotFoundError",
     text |-> <<"No module named '", registry, ".", protocol, "'">>]
AttributeError(registry, protocol, name) ==
    [type |-> "AttributeError",
     text |-> <<"module '", registry, ".", protocol, "' has no attribute '", name, "'">>]
ImportError(registry, protocol) ==
    [type |-> "ImportError", text |-> <<".", protocol, " is not loaded.">>]

ModuleNotFoundMsg(protocol, err) ==
    <<"Driver execution failed: Module ", protocol,
      " not found in custom nor PyEZ tables.", "\nNative error: ">> \o err.text
TableNotFoundMsg(name, protocol, err) ==
    <<"Driver execution failed: Table ", name, " for module ", protocol,
      " not found in custom nor PyEZ tables.\nNative error: ">> \o err.text

\* One tier: module = import_module(...); start_timing();
\* table = getattr(module, name)(dev); stop_timing().  Importing and
\* instantiating each take one tick of the clock.
Tier(registry, answer, c, t) ==
    LET protocol == Protocol(c.collector)
        name == c.params["table"]
    IN CASE answer = "no_module" ->
              [kind |-> "raise", exc |-> ModuleNotFoundError(registry, protocol),
               command |-> c, now |-> t + 1]
         [] answer = "import_error" ->
              [kind |-> "raise", exc |-> ImportError(registry, protocol),
               command |-> c, now |-> t + 1]
         [] answer = "no_attribute" ->
              [kind |-> "raise", exc |-> AttributeError(registry, protocol, name),
               command |-> start_timing(c, t + 1), now |-> t + 1]
         [] OTHER ->
              [kind |-> "table", exc |-> ReleaseFailure,
               command |-> stop_timing(start_timing(c, t + 1), t + 2), now |-> t + 2]

\* the built-in tier, inside `except (ModuleNotFoundError, AttributeError)`
BuiltinTier(answer, c, t, seen) ==
    LET protocol == Protocol(c.collector)
        r == Tier(JUNOS_PYEZ_MODULES, answer, c, t)
        log == Append(seen, [registry |-> JUNOS_PYEZ_MODULES, answer |-> answer])
        base == [kind |-> r.kind, command |-> r.command, now |-> r.now, lookups |-> log,
                 table |-> None, exc |-> None, error |-> None, msg |-> <<>>]
    IN CASE r.kind = "table" ->
               [base EXCEPT !.table = Some([registry |-> JUNOS_PYEZ_MODULES,
                                            name |-> c.params["table"]])]
         [] r.exc.type = "ModuleNotFoundError" ->
               [base EXCEPT !.kind = "return", !.error = Some("PyezError"),
                            !.msg = ModuleNotFoundMsg(protocol, r.exc)]
         [] r.exc.type = "AttributeError" ->
               [base EXCEPT !.kind = "return", !.error = Some("PyezError"),
                            !.msg = TableNotFoundMsg(c.params["table"], protocol, r.exc)]
         [] OTHER -> [base EXCEPT !.exc = Some(r.exc)]

\* mutant of ResolveTable: only ModuleNotFoundError leads to the built-in tier
ResolveTableModuleOnly(custom, builtin, c, t) ==
    LET r == Tier(JUNOS_CUSTOM_MODULES, custom, c, t)
        log == <<[registry |-> JUNOS_CUSTOM_MODULES, answer |-> custom]>>
        base == [kind |-> r.kind, command |-> r.command, now |-> r.now, lookups |-> log,
                 table |-> None, exc |-> None, error |-> None, msg |-> <<>>]
    IN CASE r.kind = "table" ->
               [base EXCEPT !.table = Some([registry |-> JUNOS_CUSTOM_MODULES,
                                            name |-> c.params["table"]])]
         [] r.exc.type = "ModuleNotFoundError" ->
               BuiltinTier(builtin, r.command, r.now, log)
         [] OTHER -> [base EXCEPT !.exc = Some(r.exc)]

\* Table resolution of lines 119-149: the custom tier, then the built-in one.
\* kind: "table" (resolved), "return" (the early `return error, msg`) or
\* "raise" (an exception leaves the block).
ResolveTable(custom, builtin, c, t) ==
    LET r == Tier(JUNOS_CUSTOM_MODULES, custom, c, t)
        log == <<[registry |-> JUNOS_CUSTOM_MODULES, answer |-> custom]>>
        base == [kind |-> r.kind, command |-> r.command, now |-> r.now, lookups |-> log,
                 table |-> None, exc |-> None, error |-> None, msg |-> <<>>]
    IN CASE r.kind = "table" ->
               [base EXCEPT !.table = Some([registry |-> JUNOS_CUSTOM_MODULES,
                                            name |-> c.params["table"]])]
         [] r.exc.type \in {"ModuleNotFoundError", "AttributeError"} ->
               BuiltinTier(builtin, r.command, r.now, log)
         [] OTHER -> [base EXCEPT !.exc = Some(r.exc)]

\* except Exception as err: ... return error, msg
PyEZExcept(e, err, m) ==
    IF e = None
    THEN [pc |-> "returned", error |-> err, msg |-> m]
    ELSE [pc |-> "returned", error |-> Some("PyezError"),
          msg |-> <<"Driver failed execution (unknown exception): ">> \o e[1].text]

PyEZReturn(w, e) ==
    LET r == PyEZExcept(e, error[w], msg[w])
    IN /\ pc' = [pc EXCEPT ![w] = r.pc]
       /\ error' = [error EXCEPT ![w] = r.error]
       /\ msg' = [msg EXCEPT ![w] = r.msg]
       /\ exc' = [exc EXCEPT ![w] = e]

\* execute(): error = None; msg = ""; conn_data = dict(...)
PyEZExecute(w) ==
    /\ pc[w] = "built"
    /\ calls < MaxCalls
    /\ "pyez" \in DriversFor(commands[w])
    /\ \E host \in Hosts, persist \in BOOLEAN :
          EnterExecute(w, "pyez", host, persist, "pz_open")

\* with Device(**conn_data) as dev:   (Device.__enter__ opens the session)
PyEZOpen(w) ==
    /\ pc[w] = "pz_open"
    /\ now' = now + 1
    /\ \/ /\ sessions' = Opened(Fresh, connector[w].host, "pyez", w)
          /\ dev' = [dev EXCEPT ![w] = Fresh]
          /\ connects' = [connects EXCEPT ![w] = @ + 1]
          /\ pc' = [pc EXCEPT ![w] = IF commands[w] = <<>> THEN "pz_exit" ELSE "pz_loop"]
          /\ UNCHANGED <<exc, error, msg>>
       \/ /\ PyEZReturn(w, Some(ConnectFailure(connector[w].host)))
          /\ UNCHANGED <<sessions, dev, connects>>
    /\ UNCHANGED <<caller, driver, connector, idx, table, sent, lookups, outter_dev, calls>>
    /\ UNCHANGED norm

\* loop body, table mode: resolve the table
PyEZTable(w) ==
    /\ pc[w] = "pz_loop"
    /\ TableHint(commands[w][idx[w]])
    /\ \E custom \in TierAnswers, builtin \in TierAnswers :
          LET r == ResolveTable(custom, builtin, commands[w][idx[w]], now)
          IN /\ commands' = [commands EXCEPT ![w][idx[w]] = r.command]
             /\ now' = r.now
             /\ lookups' = [lookups EXCEPT ![w] = r.lookups]
             /\ table' = [table EXCEPT ![w] = r.table]
             /\ exc' = [exc EXCEPT ![w] = r.exc]
             /\ error' = [error EXCEPT ![w] = r.error]
             /\ msg' = [msg EXCEPT ![w] = r.msg]
             /\ pc' = [pc EXCEPT ![w] = IF r.kind = "table" THEN "pz_get" ELSE "pz_exit"]
    /\ UNCHANGED <<routing, request, prev, driver, connector, idx, dev, sent,
                   connects, outter_dev, sessions, calls>>
    /\ UNCHANGED norm

\* Both fetches: the device answers, or the call raises.
PyEZFetch(w) ==
    /\ now' = now + 1
    /\ LET c == commands[w][idx[w]]
       IN \/ /\ IsOpen(dev[w])
             /\ commands' = [commands EXCEPT ![w][idx[w]].result = Some(Output(c.command))]
             /\ idx' = [idx EXCEPT ![w] = @ + 1]
             /\ pc' = [pc EXCEPT ![w] =
                    IF idx[w] = Len(commands[w]) THEN "pz_exit" ELSE "pz_loop"]
             /\ UNCHANGED exc
          \/ /\ exc' = [exc EXCEPT ![w] = Some(SendFailure(c.command))]
             /\ pc' = [pc EXCEPT ![w] = "pz_exit"]
             /\ UNCHANGED <<commands, idx>>
    /\ sent' = [sent EXCEPT ![w] = Append(@, [i |-> idx[w], h |-> dev[w]])]
    /\ UNCHANGED <<routing, request, prev, driver, connector, dev, table, error,
                   msg, connects, lookups, outter_dev, sessions, calls>>
    /\ UNCHANGED norm

\* loop body, table mode: command.result = table.get()
PyEZGet(w) ==
    /\ pc[w] = "pz_get"
    /\ PyEZFetch(w)

\* loop body, direct mode: command.result = dev.rpc.get(command.command)
PyEZRpc(w) ==
    /\ pc[w] = "pz_loop"
    /\ ~TableHint(commands[w][idx[w]])
    /\ PyEZFetch(w)

\* leaving the with block (normally, by `return`, or by an exception):
\* Device.__exit__ closes the session
PyEZExit(w) ==
    /\ pc[w] = "pz_exit"
    /\ now' = now + 1
    /\ \/ /\ sessions' = [sessions EXCEPT ![dev[w]].state = "closed"]
          /\ PyEZReturn(w, exc[w])
       \/ /\ sessions' = [sessions EXCEPT ![dev[w]].state = "close_failed"]
          /\ PyEZReturn(w, Some(ReleaseFailure))
    /\ UNCHANGED <<caller, driver, connector, idx, dev, table, sent, connects,
                   lookups, outter_dev, calls>>
    /\ UNCHANGED norm

PyEZ(w) ==
    \/ PyEZExecute(w)
    \/ PyEZOpen(w)
    \/ PyEZTable(w)
    \/ PyEZGet(w)
    \/ PyEZRpc(w)
    \/ PyEZExit(w)

\* ---------------------------------------------------------- specifications
\* One caller, one poll at a time (the program as it is run).
Next == CreateCommands(1) \/ Netmiko(1) \/ PyEZ(1) \/ EndPoll(1)

Spec == Init /\ [][Next]_vars

\* Two workers, each polling its own device once through NetmikoDispatcher,
\* whose session slot is a class attribute.  Each worker comes with the list
\* create_commands built for it.  A step is what runs between two blocking
\* calls, where the interpreter may switch threads.
HostOf == (1 :> "r1") @@ (2 :> "r2")

ConcRequests ==
    {[device_type |-> "cisco_ios", collectors |-> <<<<"bgp_session", "ssh">>>>,
      executor_map |-> name] : name \in DOMAIN ExecutorMaps}

InitConc ==
    /\ pc = [w \in Workers |-> "built"]
    /\ request \in [Workers -> ConcRequests]
    /\ commands = [w \in Workers |->
            create_commands(request[w].device_type, request[w].collectors,
                            ExecutorMaps[request[w].executor_map]).commands]
    /\ routing = [w \in Workers |-> [error |-> None, msg |-> <<>>]]
    /\ driver = [w \in Workers |-> ""]
    /\ connector = [w \in Workers |-> NoConnector]
    /\ idx = [w \in Workers |-> 1]
    /\ dev = [w \in Workers |-> NoDev]
    /\ table = [w \in Workers |-> None]
    /\ exc = [w \in Workers |-> None]
    /\ error = [w \in Workers |-> None]
    /\ msg = [w \in Workers |-> <<>>]
    /\ sent = [w \in Workers |-> <<>>]
    /\ connects = [w \in Workers |-> 0]
    /\ lookups = [w \in Workers |-> <<>>]
    /\ prev = [w \in Workers |-> None]
    /\ outter_dev = NoDev
    /\ sessions = <<>>
    /\ now = 0
    /\ calls = 0
    /\ input = NoCall
    /\ output = NoOutcome

\* NetmikoDispatcher.execute(commands, connector) on the worker's own device
ConcurrentExecute(w) ==
    /\ pc[w] = "built"
    /\ \E persist \in BOOLEAN :
          EnterExecute(w, "netmiko", HostOf[w], persist, "nm_enter")

NextConc ==
    \E w \in Workers :
        \/ ConcurrentExecute(w)
        \/ NetmikoEnter(w)
        \/ NetmikoConnect(w)
        \/ NetmikoBind(w)
        \/ NetmikoSend(w)
        \/ NetmikoExit(w)
        \/ NetmikoClear(w)

SpecConc == InitConc /\ [][NextConc]_vars

\* ---------------------------------------------------------------- normalizer
\* Values the processors and the serializer compute with carry their Python
\* type, the serializer branching on isinstance: a value is the pair of its
\* type and its content, value[1] and value[2].  A str is the sequence of its
\* characters (or of larger pieces where no operation looks inside them); a
\* list is a sequence; a dict is the sequence of its <<key, value>> items in
\* insertion order.
PyNone == <<"NoneType", <<>>>>
PyInt(n) == <<"int", n>>
PyBool(b) == <<"bool", b>>
\* a float is its integer part (what int() truncates it to) and its text
PyFloat(whole, text) == <<"float", <<whole, text>>>>
PyStr(chars) == <<"str", chars>>
PyList(items) == <<"list", items>>
PyDict(items) == <<"dict", items>>

\* isinstance(value, int): bool is a subclass of int
IsInstanceInt(value) == value[1] \in {"int", "bool"}
IsInstanceStr(value) == value[1] = "str"
IsInstanceBool(value) == value[1] = "bool"

\* bool(value)
Truthy(value) ==
    CASE value[1] = "NoneType" -> FALSE
      [] value[1] = "bool" -> value[2]
      [] value[1] = "int" -> value[2] # 0
      [] OTHER -> value[2] # <<>>

\* dict access on the items of a dict
Keys(items) == {items[i][1] : i \in DOMAIN items}
Item(items, key) == items[CHOOSE i \in DOMAIN items : items[i][1] = key][2]
\* d.get(key): None when the key is absent
Get(items, key) == IF key \in Keys(items) THEN Item(items, key) ELSE PyNone

\* what a call gives back: a value, or an exception that leaves it
Returns(value) == [kind |-> "return", value |-> value, exc |-> None]
Raises(type, text) ==
    [kind |-> "raise", value |-> PyNone, exc |-> Some([type |-> type, text |-> text])]

\* int(str): optional blanks around an optionally signed run of digits
Digits == ("0" :> 0) @@ ("1" :> 1) @@ ("2" :> 2) @@ ("3" :> 3) @@ ("4" :> 4)
       @@ ("5" :> 5) @@ ("6" :> 6) @@ ("7" :> 7) @@ ("8" :> 8) @@ ("9" :> 9)

\* the whitespace characters in use
Whitespace == {" ", "\t"}

\* str.strip()
Strip(chars) ==
    LET RECURSIVE LStrip(_)
        LStrip(cs) ==
            IF cs # <<>> /\ Head(cs) \in Whitespace THEN LStrip(Tail(cs)) ELSE cs
        RECURSIVE RStrip(_)
        RStrip(cs) ==
            IF cs # <<>> /\ cs[Len(cs)] \in Whitespace
            THEN RStrip(SubSeq(cs, 1, Len(cs) - 1)) ELSE cs
    IN RStrip(LStrip(chars))

RECURSIVE DigitsValue(_, _)
DigitsValue(chars, acc) ==
    IF chars = <<>> THEN acc
    ELSE DigitsValue(Tail(chars), 10 * acc + Digits[Head(chars)])

IsDigits(chars) == chars # <<>> /\ \A i \in DOMAIN chars : chars[i] \in DOMAIN Digits

\* the literal int(str) accepts, without its sign
Unsigned(chars) ==
    LET body == Strip(chars)
    IN IF body # <<>> /\ Head(body) \in {"-", "+"} THEN Tail(body) ELSE body

Negative(chars) == Strip(chars) # <<>> /\ Head(Strip(chars)) = "-"

\* int(value): the integer, ValueError for a str that is no integer literal,
\* TypeError for a value int() takes no number from
int(value) ==
    CASE value[1] = "int" -> Returns(value)
      [] value[1] = "bool" -> Returns(PyInt(IF value[2] THEN 1 ELSE 0))
      [] value[1] = "float" -> Returns(PyInt(value[2][1]))
      [] value[1] = "str" ->
            IF IsDigits(Unsigned(value[2]))
            THEN Returns(PyInt(IF Negative(value[2])
                               THEN 0 - DigitsValue(Unsigned(value[2]), 0)
                               ELSE DigitsValue(Unsigned(value[2]), 0)))
            ELSE Raises("ValueError",
                        <<"invalid literal for int() with base 10: ">> \o value[2])
      [] OTHER ->
            Raises("TypeError",
                   <<"int() argument must be a string, a bytes-like object or a number, not '",
                     value[1], "'">>)

\* str.lower(), character by character
UpperCase == <<"A", "B", "C", "D", "E", "F", "G", "H", "I", "J", "K", "L", "M",
               "N", "O", "P", "Q", "R", "S", "T", "U", "V", "W", "X", "Y", "Z">>
LowerCase == <<"a", "b", "c", "d", "e", "f", "g", "h", "i", "j", "k", "l", "m",
               "n", "o", "p", "q", "r", "s", "t", "u", "v", "w", "x", "y", "z">>

LowerChar(ch) ==
    IF \E i \in DOMAIN UpperCase : UpperCase[i] = ch
    THEN LowerCase[CHOOSE i \in DOMAIN UpperCase : UpperCase[i] = ch]
    ELSE ch

lower(chars) == [i \in DOMAIN chars |-> LowerChar(chars[i])]

\* str(n) of an int, as characters
IntChars(n) ==
    LET DigitChar(d) == CHOOSE ch \in DOMAIN Digits : Digits[ch] = d
        RECURSIVE NatChars(_)
        NatChars(m) ==
            IF m < 10 THEN <<DigitChar(m)>>
            ELSE Append(NatChars(m \div 10), DigitChar(m % 10))
    IN IF n < 0 THEN <<"-">> \o NatChars(0 - n) ELSE NatChars(n)

\* ---- pydantic models (base.py and the record classes)
\* A model is its name, its declared fields in order and Config.extra.  A
\* field is declared with a type and, unless required, a default.
Optional(name, type) == [name |-> name, type |-> type, required |-> FALSE, default |-> PyNone]
Defaulted(name, type, default) ==
    [name |-> name, type |-> type, required |-> FALSE, default |-> default]
Required(name, type) == [name |-> name, type |-> type, required |-> TRUE, default |-> PyNone]

\* addresses pydantic's IPvAnyAddress accepts, each one piece of a str
Addresses == {"10.0.0.1", "10.0.0.2"}
\* and its IPvAnyInterface
InterfaceAddresses == {"10.0.0.1/24", "2001:db8::1/64"}

\* Validation of one value against a declared type: Optional[int] takes an
\* int or a str int() parses; IPvAnyAddress takes the text of an address and
\* keeps an address object; Literal takes its members; None is taken by
\* every Optional field.
Validate(field, value) ==
    CASE value[1] = "NoneType" ->
            IF field.required THEN Raises("ValidationError", <<field.name>>)
            ELSE Returns(PyNone)
      [] field.type = "int" ->
            IF int(value).kind = "return" THEN int(value)
            ELSE Raises("ValidationError", <<field.name>>)
      [] field.type = "ip" ->
            IF value[1] = "str" /\ Len(value[2]) = 1 /\ value[2][1] \in Addresses
            THEN Returns(<<"IPv4Address", value[2]>>)
            ELSE Raises("ValidationError", <<field.name>>)
      [] field.type = "ipif" ->
            IF value[1] = "str" /\ Len(value[2]) = 1 /\ value[2][1] \in InterfaceAddresses
            THEN Returns(<<"IPv4Interface", value[2]>>)
            ELSE Raises("ValidationError", <<field.name>>)
      [] field.type = "updown" ->
            IF value \in {PyStr(<<"u", "p">>), PyStr(<<"d", "o", "w", "n">>)}
            THEN Returns(value)
            ELSE Raises("ValidationError", <<field.name>>)
      [] OTHER -> Returns(value)

\* Model(**kwargs): the declared fields in declaration order, validated;
\* keyword arguments that are no declared field are dropped under
\* extra = "ignore" and stored under extra = "allow".
Construct(model, kwargs) ==
    LET declared == {model.fields[i].name : i \in DOMAIN model.fields}
        checked == [i \in DOMAIN model.fields |->
                       IF model.fields[i].name \in Keys(kwargs)
                       THEN Validate(model.fields[i], Item(kwargs, model.fields[i].name))
                       ELSE IF model.fields[i].required
                       THEN Raises("ValidationError", <<model.fields[i].name>>)
                       ELSE Returns(model.fields[i].default)]
        unknown == SelectSeq(kwargs, LAMBDA kv : kv[1] \notin declared)
        stored == [i \in DOMAIN model.fields |-> <<model.fields[i].name, checked[i].value>>]
    IN IF \E i \in DOMAIN checked : checked[i].kind = "raise"
       THEN checked[CHOOSE i \in DOMAIN checked :
                       /\ checked[i].kind = "raise"
                       /\ \A j \in 1..(i - 1) : checked[j].kind = "return"]
       ELSE Returns(<<model.name,
                      IF model.extra = "allow" THEN stored \o unknown ELSE stored>>)

\* ---- what the processors share
\* the first exception among the outcomes of steps evaluated in order
AnyRaise(steps) == \E i \in DOMAIN steps : steps[i].kind = "raise"
FirstRaise(steps) ==
    steps[CHOOSE i \in DOMAIN steps :
             /\ steps[i].kind = "raise"
             /\ \A j \in 1..(i - 1) : steps[j].kind = "return"]

\* `for item in ...: records.append(...)` followed by `return records`: the
\* list of the appended values, unless an iteration raised
ForEach(steps) ==
    IF AnyRaise(steps) THEN FirstRaise(steps)
    ELSE Returns(PyList([i \in DOMAIN steps |-> steps[i].value]))

\* item[key] on a dict
Subscript(items, key) ==
    IF key \in Keys(items) THEN Returns(Item(items, key))
    ELSE Raises("KeyError", <<key>>)

\* command.params.get(key), as a truth value
Hint(command, key) == key \in DOMAIN command.params /\ command.params[key] # ""

\* `sub in chars`
Contains(chars, sub) ==
    \E i \in 1..(Len(chars) - Len(sub) + 1) : SubSeq(chars, i, i + Len(sub) - 1) = sub

\* command = commands[0]; if not command: raise ...; if not command.result:
\* raise ...   -- gives the command when both checks pass
Preconditions(cmds, error_class) ==
    IF cmds = <<>>
    THEN Raises("IndexError", <<"list index out of range">>)
    ELSE IF cmds[1] = None
    THEN Raises(error_class, <<"No command found">>)
    ELSE IF cmds[1][1].result = None \/ ~Truthy(cmds[1][1].result[1])
    THEN Raises(error_class, <<"No result returned in Command">>)
    ELSE Returns(cmds[1][1])

\* iterating a parsed result: the rows of a list, the keys of a dict, the
\* characters of a str
Iterate(value) ==
    IF value[1] = "dict" THEN [i \in DOMAIN value[2] |-> PyStr(<<value[2][i][1]>>)]
    ELSE IF value[1] = "str" THEN [i \in DOMAIN value[2] |-> PyStr(<<value[2][i]>>)]
    ELSE value[2]

\* item[key] where item is whatever the iteration gave
RowSubscript(item, key) ==
    IF item[1] = "dict" THEN Subscript(item[2], key)
    ELSE Raises("TypeError", <<"string indices must be integers">>)

\* ---- lldp_neighbors.py
LLDPNeighbor ==
    [name |-> "LLDPNeighbor", extra |-> "ignore",
     fields |-> <<Required("interface", "str"),
                  Optional("local_parent_interface", "str"),
                  Optional("remote_type", "str"),
                  Optional("remote_chassis_id", "str"),
                  Optional("remote_port_desc", "str"),
                  Optional("remote_interface", "str"),
                  Optional("remote_system_name", "str")>>]

lldp_row(item) ==
    LET steps == <<RowSubscript(item, "local_interface"),
                   RowSubscript(item, "neighbor"),
                   RowSubscript(item, "neighbor_interface")>>
    IN IF AnyRaise(steps) THEN FirstRaise(steps)
       ELSE Construct(LLDPNeighbor, <<<<"interface", steps[1].value>>,
                                      <<"remote_system_name", steps[2].value>>,
                                      <<"remote_interface", steps[3].value>>>>)

lldp_netmiko_processor(cmds, conn) ==
    LET pre == Preconditions(cmds, "LLDPNeighborError")
        command == pre.value
        rows == Iterate(command.result[1])
    IN IF pre.kind = "raise" THEN pre
       ELSE IF conn.device_type \in {"cisco_ios", "cisco_xe"}
       THEN IF Hint(command, "use_textfsm")
            THEN ForEach([i \in DOMAIN rows |-> lldp_row(rows[i])])
            ELSE Raises("NotImplementedError", <<"Netmiko parser not implemented">>)
       ELSE Raises("NotImplementedError", <<"Not yet for other device types">>)

\* ---- bgp_sessions.py
SESSION_STATE_MAP ==
    (<<"i", "d", "l", "e">> :> 1) @@ (<<"c", "o", "n", "n", "e", "c", "t">> :> 2)
 @@ (<<"a", "c", "t", "i", "v", "e">> :> 3) @@ (<<"o", "p", "e", "n", "s", "e", "n", "t">> :> 4)
 @@ (<<"o", "p", "e", "n", "c", "o", "n", "f", "i", "r", "m">> :> 5) @@ (<<"e", "s", "t", "a", "b", "l", "i", "s", "h", "e", "d">> :> 6)

\* SESSION_STATE_MAP.get(key)
session_state_code(chars) ==
    IF chars \in DOMAIN SESSION_STATE_MAP THEN PyInt(SESSION_STATE_MAP[chars]) ELSE PyNone

\* mutant of Lowered: the text is kept as the device printed it
LoweredAsGiven(value) ==
    IF value[1] = "str" THEN Returns(value)
    ELSE Raises("AttributeError",
                <<"'", value[1], "' object has no attribute 'lower'">>)

\* value.lower() of a parsed value: AttributeError on anything but a str
Lowered(value) ==
    IF value[1] = "str" THEN Returns(PyStr(lower(value[2])))
    ELSE Raises("AttributeError",
                <<"'", value[1], "' object has no attribute 'lower'">>)

bgp_type(raw_type) ==
    IF raw_type[1] # "str"
    THEN Raises("AttributeError", <<"'", raw_type[1], "' object has no attribute 'lower'">>)
    ELSE IF \E x \in {<<"e", "x", "t", "e", "r", "n", "a", "l">>, <<"e", "b", "g", "p">>} :
               Contains(lower(raw_type[2]), x)
    THEN Returns(PyStr(<<"E", "X", "T", "E", "R", "N", "A", "L">>))
    ELSE IF \E x \in {<<"i", "n", "t", "e", "r", "n", "a", "l">>, <<"i", "b", "g", "p">>} :
               Contains(lower(raw_type[2]), x)
    THEN Returns(PyStr(<<"I", "N", "T", "E", "R", "N", "A", "L">>))
    ELSE Returns(raw_type)

\* raw_address.split("+")[0] if "+" in raw_address else raw_address
strip_ip_address(raw_address) ==
    IF raw_address[1] # "str"
    THEN Raises("TypeError", <<"argument of type '", raw_address[1], "' is not iterable">>)
    ELSE IF \E i \in DOMAIN raw_address[2] : raw_address[2][i] = "+"
    THEN Returns(PyStr(SubSeq(raw_address[2], 1,
            (CHOOSE i \in DOMAIN raw_address[2] :
                /\ raw_address[2][i] = "+"
                /\ \A j \in 1..(i - 1) : raw_address[2][j] # "+") - 1)))
    ELSE Returns(raw_address)

BgpSession ==
    [name |-> "BgpSession", extra |-> "ignore",
     fields |-> <<Optional("local_address", "ip"),
                  Optional("neighbor_address", "ip"),
                  Optional("local_as", "int"),
                  Optional("peer_as", "int"),
                  Optional("peer_router_id", "ip"),
                  Optional("router_id", "ip"),
                  Optional("peer_type", "str"),
                  Defaulted("routing_instance", "str", PyStr(<<"default">>)),
                  Optional("peer_group", "str"),
                  Optional("prefixes_denied", "int"),
                  Optional("prefixes_suppressed", "int"),
                  Optional("prefixes_received", "int"),
                  Optional("prefixes_received_pre_policy", "int"),
                  Optional("prefixes_sent", "int"),
                  Optional("prefixes_installed", "int"),
                  Optional("session_state", "str"),
                  Optional("session_state_code", "int")>>]

\* `value if value else other`
IfElse(value, other) == IF Truthy(value) THEN value ELSE other

\* one row of the use_textfsm branch
bgp_textfsm_row(item) ==
    LET steps == <<RowSubscript(item, "localhost_ip"),
                   RowSubscript(item, "remote_ip"),
                   RowSubscript(item, "remote_as"),
                   RowSubscript(item, "remote_router_id"),
                   RowSubscript(item, "bgp_state"),
                   RowSubscript(item, "peer_group")>>
        state == Lowered(steps[5].value)
    IN IF AnyRaise(steps) THEN FirstRaise(steps)
       ELSE IF state.kind = "raise" THEN state
       ELSE Construct(BgpSession,
                <<<<"local_address", steps[1].value>>,
                  <<"neighbor_address", steps[2].value>>,
                  <<"peer_as", steps[3].value>>,
                  <<"peer_router_id", steps[4].value>>,
                  <<"session_state", state.value>>,
                  <<"session_state_code", session_state_code(state.value[2])>>,
                  <<"peer_group", IfElse(steps[6].value, PyNone)>>>>)

\* d.get(key, {}) along a path of keys, then .get(last)
RECURSIVE GetPath(_, _)
GetPath(value, path) ==
    IF path = <<>> THEN value
    ELSE IF Len(path) = 1 THEN Get(value[2], path[1])
    ELSE GetPath(IF path[1] \in Keys(value[2]) THEN Item(value[2], path[1]) ELSE PyDict(<<>>),
                 Tail(path))

\* one neighbor of the use_genie branch
bgp_genie_neighbor(vrf_name, neighbor_ip, data) ==
    LET raw == Subscript(data[2], "session_state")
        state == Lowered(raw.value)
        counters == <<"address_family", "ipv4 unicast", "prefix_activity_counters">>
    IN IF raw.kind = "raise" THEN raw
       ELSE IF state.kind = "raise" THEN state
       ELSE Construct(BgpSession,
                <<<<"local_address",
                    GetPath(data, <<"bgp_session_transport", "transport", "local_host">>)>>,
                  <<"neighbor_address", PyStr(<<neighbor_ip>>)>>,
                  <<"peer_as", Get(data[2], "remote_as")>>,
                  <<"router_id", Get(data[2], "router_id")>>,
                  <<"session_state", state.value>>,
                  <<"session_state_code", session_state_code(state.value[2])>>,
                  <<"routing_instance", PyStr(<<vrf_name>>)>>,
                  <<"prefixes_received",
                    GetPath(data, counters \o <<"received", "prefixes_current">>)>>,
                  <<"prefixes_sent",
                    GetPath(data, counters \o <<"sent", "prefixes_current">>)>>,
                  <<"prefixes_installed",
                    GetPath(data, counters \o <<"received", "used_as_bestpath">>)>>>>)

\* the use_genie branch: every neighbor of every vrf, in order
bgp_genie(result) ==
    IF result[1] # "dict"
    THEN Raises("AttributeError", <<"'", result[1], "' object has no attribute 'get'">>)
    ELSE LET all == IF "vrf" \in Keys(result[2]) THEN Item(result[2], "vrf")[2] ELSE <<>>
             neighbors(vrf) ==
                 IF "neighbor" \in Keys(vrf[2]) THEN Item(vrf[2], "neighbor")[2] ELSE <<>>
         IN ForEach(Flatten([i \in DOMAIN all |->
                [j \in DOMAIN neighbors(all[i][2]) |->
                    bgp_genie_neighbor(all[i][1], neighbors(all[i][2])[j][1],
                                       neighbors(all[i][2])[j][2])]]))

bgp_netmiko_processor(cmds, conn) ==
    LET pre == Preconditions(cmds, "BgpSessionError")
        command == pre.value
        rows == Iterate(command.result[1])
    IN IF pre.kind = "raise" THEN pre
       ELSE IF conn.device_type \in {"cisco_ios", "cisco_xe"}
       THEN IF Hint(command, "use_textfsm")
            THEN ForEach([i \in DOMAIN rows |-> bgp_textfsm_row(rows[i])])
            ELSE IF Hint(command, "use_genie")
            THEN bgp_genie(command.result[1])
            ELSE Raises("NotImplementedError", <<"Netmiko parser not implemented">>)
       ELSE Raises("NotImplementedError", <<"Not yet for other device types">>)

\* int(value) if value else 0
IntOrZero(value) == IF Truthy(value) THEN int(value) ELSE Returns(PyInt(0))

\* strip_ip_address(value) if value else None
StripOrNone(value) == IF Truthy(value) THEN strip_ip_address(value) ELSE Returns(PyNone)

\* mutant of Denied: the terms swapped
DeniedSwapped(received_pre_policy, accepted) == accepted - received_pre_policy

\* prefixes_denied = prefixes_received_pre_policy - prefixes_received
Denied(received_pre_policy, accepted) == received_pre_policy - accepted

\* one item of a PyEZ table (attribute access on a view: every field of the
\* view is there, None when the device did not send it)
bgp_pyez_row(command, item) ==
    IF ~Hint(command, "table")
    THEN Raises("NotImplementedError", <<"PyEZ parser not implemented">>)
    ELSE
    LET a(name) == Item(item[2], name)
        steps == <<IntOrZero(a("prefixes_accepted")),
                   IntOrZero(a("prefixes_received")),
                   strip_ip_address(a("local_address")),
                   strip_ip_address(a("peer_address")),
                   StripOrNone(a("peer_id")),
                   StripOrNone(a("local_id")),
                   bgp_type(a("peer_type")),
                   Lowered(a("peer_state"))>>
    IN IF AnyRaise(steps) THEN FirstRaise(steps)
       ELSE Construct(BgpSession,
                <<<<"local_address", steps[3].value>>,
                  <<"neighbor_address", steps[4].value>>,
                  <<"local_as", a("local_as")>>,
                  <<"peer_as", a("peer_as")>>,
                  <<"peer_router_id", steps[5].value>>,
                  <<"router_id", steps[6].value>>,
                  <<"peer_type", steps[7].value>>,
                  <<"prefixes_received_pre_policy", steps[2].value>>,
                  <<"prefixes_received", steps[1].value>>,
                  <<"prefixes_denied", PyInt(Denied(steps[2].value[2], steps[1].value[2]))>>,
                  <<"prefixes_installed", IfElse(a("prefixes_active"), PyInt(0))>>,
                  <<"prefixes_suppressed", IfElse(a("prefixes_suppressed"), PyInt(0))>>,
                  <<"prefixes_sent", IfElse(a("prefixes_advertised"), PyInt(0))>>,
                  <<"session_state", steps[8].value>>,
                  <<"session_state_code", session_state_code(steps[8].value[2])>>>>)

bgp_pyez_processor(cmds, conn) ==
    LET pre == Preconditions(cmds, "BgpSessionError")
        command == pre.value
        rows == Iterate(command.result[1])
    IN IF pre.kind = "raise" THEN pre
       ELSE ForEach([i \in DOMAIN rows |-> bgp_pyez_row(command, rows[i])])

\* ---- vpn_sessions.py
\* try: return int(value)  except ValueError: return None
isinty(value) ==
    LET r == int(value)
    IN IF r.kind = "raise" /\ r.exc[1].type = "ValueError" THEN Returns(PyNone) ELSE r

\* character classes of the regular expressions in slugify: \w is a letter
\* (ASCII or not), a digit or "_"; "U+00E9" stands for a letter outside ASCII
NonAscii == {"U+00E9"}
WordChars == Range(UpperCase) \cup Range(LowerCase) \cup DOMAIN Digits \cup {"_"} \cup NonAscii
Separators == {"-", "."} \cup Whitespace

\* re.sub(r"[^\-\.\w\s]", "", string); .strip().lower();
\* re.sub(r"[\-\.\s]+", "-", string); .encode("ASCII", "ignore").decode();
\* string[:length]
slugify(string, length) ==
    LET RECURSIVE DropSeparators(_)
        DropSeparators(chars) ==
            IF chars # <<>> /\ Head(chars) \in Separators
            THEN DropSeparators(Tail(chars)) ELSE chars
        RECURSIVE Collapse(_)
        Collapse(chars) ==
            IF chars = <<>> THEN <<>>
            ELSE IF Head(chars) \in Separators
            THEN <<"-">> \o Collapse(DropSeparators(chars))
            ELSE <<Head(chars)>> \o Collapse(Tail(chars))
        kept == SelectSeq(string, LAMBDA ch : ch \in WordChars \cup Separators)
        lowered == lower(Strip(kept))
        joined == Collapse(lowered)
        ascii == SelectSeq(joined, LAMBDA ch : ch \notin NonAscii)
    IN SubSeq(ascii, 1, IF Len(ascii) < length THEN Len(ascii) ELSE length)

\* slugify(value) as the processor calls it (length = 50)
Slug(value) ==
    IF value[1] = "str" THEN Returns(PyStr(slugify(value[2], 50)))
    ELSE Raises("TypeError", <<"expected string or bytes-like object">>)

AsaVpnStats ==
    [name |-> "AsaVpnStats", extra |-> "ignore",
     fields |-> <<Optional("active", "int"), Optional("cumulative", "int"),
                  Optional("peak_concurrent", "int"), Optional("inactive", "int"),
                  Optional("name", "str")>>]

AsaTunnelStats ==
    [name |-> "AsaTunnelStats", extra |-> "ignore",
     fields |-> <<Optional("active", "int"), Optional("cumulative", "int"),
                  Optional("peak_concurrent", "int"), Optional("name", "str")>>]

AsaGlobalStats ==
    [name |-> "AsaGlobalStats", extra |-> "ignore",
     fields |-> <<Optional("total_active_and_inactive", "int"),
                  Optional("total_cumulative", "int"),
                  Optional("device_total_vpn_capacity", "int"),
                  Optional("device_load_percent", "int"),
                  Optional("totals_active", "int"),
                  Optional("totals_cumulative", "int")>>]

vpn_netmiko_processor(cmds, conn) ==
    LET
        \* sessiondb[0]
        First(sessiondb) ==
            CASE sessiondb[1] = "list" -> Returns(sessiondb[2][1])
              [] sessiondb[1] = "dict" -> Raises("KeyError", <<"0">>)
              [] OTHER -> Returns(PyStr(<<sessiondb[2][1]>>))

        \* sessiondb[0][key]
        Column(sessiondb, key) ==
            IF First(sessiondb).kind = "raise" THEN First(sessiondb)
            ELSE RowSubscript(First(sessiondb).value, key)

        \* sessiondb[0][key][i]
        Cell(sessiondb, key, i) ==
            LET col == Column(sessiondb, key)
            IN IF col.kind = "raise" THEN col
               ELSE IF col.value[1] \notin {"list", "str"}
               THEN Raises("TypeError", <<"'", col.value[1], "' object is not subscriptable">>)
               ELSE IF i \notin DOMAIN col.value[2]
               THEN Raises("IndexError", <<"list index out of range">>)
               ELSE IF col.value[1] = "list" THEN Returns(col.value[2][i])
               ELSE Returns(PyStr(<<col.value[2][i]>>))

        \* the coerced cells of one record, then the record
        Stat(model, names, steps) ==
            IF AnyRaise(steps) THEN FirstRaise(steps)
            ELSE Construct(model, [i \in DOMAIN names |-> <<names[i], steps[i].value>>])

        \* except (IndexError, KeyError): raise VpnSessionsError(...)
        Unparsable(outcome, text) ==
            IF outcome.kind = "raise" /\ outcome.exc[1].type \in {"IndexError", "KeyError"}
            THEN Raises("VpnSessionsError", text)
            ELSE outcome

        \* for i, _ in enumerate(sessiondb[0][name_column]): one record per name;
        \* the last field is the name, its column the name column
        Stats(model, sessiondb, fields, columns) ==
            LET names == Column(sessiondb, columns[Len(columns)])
                count == IF names.value[1] \in {"list", "str"} THEN Len(names.value[2]) ELSE 0
            IN IF names.kind = "raise" THEN names
               ELSE ForEach([i \in 1..count |->
                        Stat(model, fields,
                             [k \in DOMAIN columns |->
                                LET cell == Cell(sessiondb, columns[k], i)
                                IN IF cell.kind = "raise" THEN cell
                                   ELSE IF k < Len(columns) THEN isinty(cell.value)
                                   ELSE Slug(cell.value)])])

        GlobalFields ==
            <<"total_active_and_inactive", "total_cumulative", "device_total_vpn_capacity",
              "device_load_percent", "totals_active", "totals_cumulative">>

        \* AsaGlobalStats(total_active_and_inactive=isinty(sessiondb[0][...]), ...)
        GlobalStat(sessiondb) ==
            Stat(AsaGlobalStats, GlobalFields,
                 [k \in DOMAIN GlobalFields |->
                    LET cell == Column(sessiondb, GlobalFields[k])
                    IN IF cell.kind = "raise" THEN cell ELSE isinty(cell.value)])

        pre == Preconditions(cmds, "VpnSessionsError")
        sessiondb == pre.value.result[1]
        sessions_part ==
            Unparsable(Stats(AsaVpnStats, sessiondb,
                             <<"active", "cumulative", "peak_concurrent", "inactive", "name">>,
                             <<"vpn_session_active", "vpn_session_cumulative",
                               "vpn_session_peak_concurrent", "vpn_session_inactive",
                               "vpn_session_name">>),
                       <<"Unable to parse output correctly (vpn_session)">>)
        tunnels_part ==
            Unparsable(Stats(AsaTunnelStats, sessiondb,
                             <<"active", "cumulative", "peak_concurrent", "name">>,
                             <<"tunnels_summary_active", "tunnels_summary_cumulative",
                               "tunnels_summary_peak_concurrent", "tunnels_summary_name">>),
                       <<"Unable to parse output correctly (tunnels)">>)
        global_part == GlobalStat(sessiondb)
    IN IF pre.kind = "raise" THEN pre
       ELSE IF conn.device_type = "cisco_asa"
       THEN IF sessions_part.kind = "raise" THEN sessions_part
            ELSE IF tunnels_part.kind = "raise" THEN tunnels_part
            ELSE IF global_part.kind = "raise" THEN global_part
            ELSE Returns(PyList(sessions_part.value[2] \o tunnels_part.value[2]
                                \o <<global_part.value>>))
       ELSE Raises("NotImplementedError", <<"Not yet for other device types">>)

\* ---- interfaces.py
\* the delimiters netaddr's EUI accepts between the octets of an address
MacDelimiters == {"-", ":", "."}

\* mac_converter(address): a str is the sequence of its octets and
\* delimiters, after "0x" when written as a hexadecimal number
mac_converter(address) ==
    IF address[1] # "str"
    THEN Raises("AttributeError",
                <<"'", address[1], "' object has no attribute 'startswith'">>)
    ELSE LET digits == IF address[2] # <<>> /\ Head(address[2]) = "0x"
                       THEN Tail(address[2]) ELSE address[2]
             octets == SelectSeq(digits, LAMBDA piece : piece \notin MacDelimiters)
         IN IF octets = <<>>
            THEN Raises("AddrFormatError", <<"failed to detect EUI version">>)
            ELSE Returns(PyStr([i \in 1..(2 * Len(octets) - 1) |->
                    IF i % 2 = 1 THEN lower(<<octets[(i + 1) \div 2]>>)[1] ELSE ":"]))

PortChannel ==
    [name |-> "PortChannel", extra |-> "allow",
     fields |-> <<Required("port_channel_member", "bool")>>]

InterfaceIP ==
    [name |-> "InterfaceIP", extra |-> "ignore",
     fields |-> <<Optional("address", "ipif"), Optional("role", "str")>>]

CounterNames ==
    <<"in_pkts", "in_octets", "in_multicast_pkts", "in_broadcast_pkts", "in_runts",
      "in_giants", "in_throttles", "in_errors", "in_crc_errors", "out_pkts",
      "out_octets", "out_multicast_pkts", "out_broadcast_pkts", "out_errors",
      "out_collision", "out_unknown_protocl_drops", "out_late_collision",
      "out_deferred", "out_lost_carrier", "out_no_carrier">>

InterfaceCounters ==
    [name |-> "InterfaceCounters", extra |-> "ignore",
     fields |-> [i \in DOMAIN CounterNames |-> Optional(CounterNames[i], "int")]]

Interface ==
    [name |-> "Interface", extra |-> "ignore",
     fields |-> <<Required("name", "str"), Required("enabled", "bool"),
                  Required("oper_status", "updown"), Optional("description", "str"),
                  Optional("line_protocol", "updown"), Optional("port_channel", "model"),
                  Optional("type", "str"), Optional("mac_address", "str"),
                  Defaulted("ipv4", "list", PyList(<<>>)),
                  Defaulted("ipv6", "list", PyList(<<>>)),
                  Optional("delay", "int"), Optional("mtu", "int"),
                  Optional("bandwidth", "int"), Optional("duplex_mode", "str"),
                  Optional("port_speed", "str"), Optional("counters", "model")>>]

\* [InterfaceIP(address=ip) for ip, _ in intf_params.get(family, {}).items()]
InterfaceIPs(intf_params, family) ==
    LET ips == IF family \in Keys(intf_params[2]) THEN Item(intf_params[2], family)[2] ELSE <<>>
    IN ForEach([i \in DOMAIN ips |->
                  Construct(InterfaceIP, <<<<"address", PyStr(<<ips[i][1]>>)>>>>)])

\* one interface of the use_genie branch
interface_row(intf_name, intf_params) ==
    LET get(key) == Get(intf_params[2], key)
        steps == <<IF ~Truthy(get("port_channel")) THEN Returns(PyNone)
                   ELSE Construct(PortChannel, get("port_channel")[2]),
                   IF ~Truthy(get("counters")) THEN Returns(PyNone)
                   ELSE Construct(InterfaceCounters,
                            [i \in DOMAIN CounterNames |->
                                <<CounterNames[i], Get(get("counters")[2], CounterNames[i])>>]),
                   Subscript(intf_params[2], "enabled"),
                   IF Subscript(intf_params[2], "oper_status").kind = "raise"
                   THEN Subscript(intf_params[2], "oper_status")
                   ELSE Lowered(Item(intf_params[2], "oper_status")),
                   mac_converter(get("mac_address")),
                   InterfaceIPs(intf_params, "ipv4"),
                   InterfaceIPs(intf_params, "ipv6")>>
    IN IF AnyRaise(steps) THEN FirstRaise(steps)
       ELSE Construct(Interface,
                <<<<"name", PyStr(<<intf_name>>)>>,
                  <<"enabled", steps[3].value>>,
                  <<"oper_status", steps[4].value>>,
                  <<"description", get("description")>>,
                  <<"line_protocol", get("line_protocol")>>,
                  <<"port_channel", steps[1].value>>,
                  <<"type", get("type")>>,
                  <<"mac_address", steps[5].value>>,
                  <<"ipv4", steps[6].value>>,
                  <<"ipv6", steps[7].value>>,
                  <<"delay", get("delay")>>,
                  <<"mtu", get("mtu")>>,
                  <<"bandwidth", get("bandwidth")>>,
                  <<"duplex_mode", get("duplex_mode")>>,
                  <<"port_speed", get("port_speed")>>,
                  <<"counters", steps[2].value>>>>)

\* netmiko_processor(command, connector) of interfaces.py takes one command,
\* not a list: anything that is no Command has no attribute `result`
interfaces_netmiko_processor(command, conn) ==
    IF command[1] # "Command"
    THEN Raises("AttributeError", <<"'", command[1], "' object has no attribute 'result'">>)
    ELSE IF command[2].result = None \/ ~Truthy(command[2].result[1])
    THEN Raises("InterfacesError", <<"No result returned in Command">>)
    ELSE IF Hint(command[2], "use_genie")
    THEN IF command[2].result[1][1] # "dict"
         THEN Raises("AttributeError",
                     <<"'", command[2].result[1][1], "' object has no attribute 'items'">>)
         ELSE LET items == command[2].result[1][2]
              IN ForEach([i \in DOMAIN items |-> interface_row(items[i][1], items[i][2])])
    ELSE Raises("NotImplementedError", <<"Not yet implemented for other methods">>)

\* ---- influx.py
\* f"{value}": str(value), as the pieces of the text
Str(value) ==
    CASE value[1] = "int" -> IntChars(value[2])
      [] value[1] = "bool" -> IF value[2] THEN <<"True">> ELSE <<"False">>
      [] value[1] = "NoneType" -> <<"None">>
      [] value[1] = "float" -> <<value[2][2]>>
      [] OTHER -> value[2]

\* value.replace(" ", r"\ ")
Escape(chars) ==
    Flatten([i \in DOMAIN chars |-> IF chars[i] = " " THEN <<"\\", " ">> ELSE <<chars[i]>>])

\* one iteration of the loop over tags.items()
TagText(key, value) ==
    IF value[1] = "NoneType" THEN <<>>
    ELSE IF IsInstanceStr(value) THEN <<",", key, "=">> \o Escape(value[2])
    ELSE <<",", key, "=">> \o Str(value)

\* one iteration of the loop over data.items(), without the separating comma
FieldText(key, value) ==
    IF IsInstanceInt(value) THEN <<key, "=">> \o Str(value) \o <<"i">>
    ELSE IF IsInstanceStr(value) THEN <<key, "=", "\"">> \o Escape(value[2]) \o <<"\"">>
    ELSE IF IsInstanceBool(value) THEN <<key, IF value[2] THEN "=true" ELSE "=false">>
    ELSE <<key, "=">> \o Str(value)

\* data_string: a comma before every field text once data_string is not empty
RECURSIVE DataString(_, _)
DataString(data, data_string) ==
    IF data = <<>> THEN data_string
    ELSE DataString(Tail(data),
                    (IF data_string # <<>> THEN Append(data_string, ",") ELSE data_string)
                    \o FieldText(Head(data)[1], Head(data)[2]))

\* f"{series}{tags_string} {data_string}"
format_influx_metrics(series, data, tags) ==
    <<series>> \o Flatten([i \in DOMAIN tags |-> TagText(tags[i][1], tags[i][2])])
    \o <<" ">> \o DataString(data, <<>>)

\* InfluxMetric.to_line_protocol
to_line_protocol(metric) ==
    format_influx_metrics(metric.name, metric.influx_fields, metric.tags)

\* ---- influx_metric of the record classes: the series, the keys copied to
\* tags, the keys copied to fields (tested after the tag keys) and the name a
\* field is emitted under
Metrics ==
    ("BgpSession" :>
        [series |-> "bgp",
         tags |-> {"local_address", "neighbor_address", "local_as", "peer_as",
                   "peer_router_id", "router_id", "peer_type", "routing_instance",
                   "peer_group"},
         fields |-> {"prefixes_received", "prefixes_received_pre_policy",
                     "prefixes_sent", "prefixes_installed", "session_state_code"}])
 @@ ("LLDPNeighbor" :>
        [series |-> "lldp_neighbors",
         tags |-> {"interface", "local_parent_interface", "remote_type",
                   "remote_chassis_id", "remote_port_desc", "remote_interface",
                   "remote_system_name"},
         fields |-> {"remote_interface"}])
 @@ ("AsaVpnStats" :>
        [series |-> "vpn_session", tags |-> {"name"},
         fields |-> {"active", "cumulative", "peak_concurrent", "inactive"}])
 @@ ("AsaTunnelStats" :>
        [series |-> "vpn_tunnel", tags |-> {"name"},
         fields |-> {"active", "cumulative", "peak_concurrent"}])
 @@ ("AsaGlobalStats" :>
        [series |-> "asa_vpn", tags |-> {},
         fields |-> {"total_active_and_inactive", "total_cumulative",
                     "device_total_vpn_capacity", "device_load_percent",
                     "totals_active", "totals_cumulative"}])

\* fields.update({"session_state": value}) for session_state_code
FieldName(key) == IF key = "session_state_code" THEN "session_state" ELSE key

\* the tags and fields dicts influx_metric builds from self.dict().items()
MetricTags(record) ==
    SelectSeq(record[2], LAMBDA kv : kv[1] \in Metrics[record[1]].tags /\ kv[2][1] # "NoneType")

MetricFields(record) ==
    LET picked == SelectSeq(record[2], LAMBDA kv :
                      /\ kv[1] \notin Metrics[record[1]].tags
                      /\ kv[1] \in Metrics[record[1]].fields
                      /\ kv[2][1] # "NoneType")
    IN [i \in DOMAIN picked |-> <<FieldName(picked[i][1]), picked[i][2]>>]

influx_metric(record) ==
    format_influx_metrics(Metrics[record[1]].series, MetricFields(record), MetricTags(record))

\* ------------------------------------------------- normalizer: the inputs
\* Parsed results are bounded by the number of rows (MaxRows), field dicts by
\* the number of fields (MaxFields), free text by the number of characters
\* (MaxStr).
MaxRows == 2
MaxFields == 2
MaxStr == 2
\* names given to slugify have up to MaxSlug characters
MaxSlug == 3

\* a Command as the dispatcher leaves it: result is None or Some(parsed)
Executed(executor, collector, collection_method, params, result) ==
    [Command(<<"show">>, executor, collector, collection_method, params)
        EXCEPT !.result = result]

\* sequences of 1..n elements of S
SeqsFromOne(S, n) == UNION {[1..k -> S] : k \in 1..n}

\* sequences without repetition of their first component (the keys of a dict)
DistinctKeys(items) ==
    \A i, j \in DOMAIN items : items[i][1] = items[j][1] => i = j

\* BGP state names as devices print them
StateNames ==
    {<<"E", "s", "t", "a", "b", "l", "i", "s", "h", "e", "d">>,
     <<"E", "S", "T", "A", "B", "L", "I", "S", "H", "E", "D">>,
     <<"e", "s", "t", "a", "b", "l", "i", "s", "h", "e", "d">>,
     <<"I", "d", "l", "e">>,
     <<"A", "c", "t", "i", "v", "e">>,
     <<"C", "o", "n", "n", "e", "c", "t">>,
     <<"O", "p", "e", "n", "S", "e", "n", "t">>,
     <<"O", "p", "e", "n", "C", "o", "n", "f", "i", "r", "m">>,
     <<"D", "o", "w", "n">>}

NormDeviceTypes == {"cisco_ios", "cisco_xe", "cisco_asa", "juniper_junos"}

\* what fails the preconditions: no command at all, None in the list, a
\* command without result, a command whose result is empty
Unsatisfied(executor, collector, collection_method, params) ==
    {<<>>, <<None>>}
    \cup {<<Some(Executed(executor, collector, collection_method, params, r))>> :
            r \in {None, Some(PyNone), Some(PyList(<<>>)), Some(PyDict(<<>>)),
                   Some(PyStr(<<>>))}}

\* the raw text netmiko returns when no parser is asked for
RawText == PyStr(<<"B", "G", "P", " ", "n", "e", "i", "g", "h", "b", "o", "r">>)

\* ---- bgp_session over ssh
BgpNetmikoInputs ==
    LET BgpTextfsmRows ==
            {PyDict(<<<<"localhost_ip", PyStr(<<"10.0.0.1">>)>>,
                      <<"remote_ip", PyStr(<<"10.0.0.2">>)>>,
                      <<"remote_as", PyStr(<<"6", "5", "0", "0", "1">>)>>,
                      <<"remote_router_id", PyStr(<<"10.0.0.2">>)>>,
                      <<"bgp_state", PyStr(state)>>,
                      <<"peer_group", PyStr(group)>>,
                      <<"up_down", PyStr(<<"1", "w">>)>>>>) :
                state \in StateNames, group \in {<<>>, <<"c", "o", "r", "e">>}}
        \* the prefix_activity_counters subtree of a neighbor
        GenieCounters ==
            PyDict(<<<<"ipv4 unicast", PyDict(<<<<"prefix_activity_counters", PyDict(<<
                <<"received", PyDict(<<<<"prefixes_current", PyInt(7)>>,
                                       <<"used_as_bestpath", PyInt(5)>>>>)>>,
                <<"sent", PyDict(<<<<"prefixes_current", PyInt(3)>>>>)>>>>)>>>>)>>>>)
        GenieNeighborData ==
            {PyDict(<<<<"session_state", PyStr(state)>>, <<"remote_as", PyInt(65001)>>>> \o more) :
                state \in StateNames,
                more \in {<<>>, <<<<"router_id", PyStr(<<"10.0.0.1">>)>>,
                                  <<"address_family", GenieCounters>>,
                                  <<"bgp_version", PyInt(4)>>>>}}
        GenieNeighbors ==
            {ns \in SeqsFromOne(Addresses \X GenieNeighborData, MaxRows) : DistinctKeys(ns)}
        BgpGenieResults ==
            {PyDict(<<<<"vrf", PyDict(<<<<vrf, PyDict(<<<<"neighbor", PyDict(ns)>>>>)>>>>)>>>>) :
                vrf \in {"default", "mgmt"}, ns \in GenieNeighbors}
            \cup {PyDict(<<<<"total_entries", PyInt(0)>>>>)}
        BgpNetmikoCommands ==
            {Executed("netmiko", "bgp_session", "ssh", "use_textfsm" :> "True", Some(PyList(rows))) :
                rows \in SeqsFromOne(BgpTextfsmRows, MaxRows)}
            \cup {Executed("netmiko", "bgp_session", "ssh", "use_genie" :> "True", Some(r)) :
                    r \in BgpGenieResults}
            \cup {Executed("netmiko", "bgp_session", "ssh", <<>>, Some(RawText))}
            \cup {Executed("netmiko", "bgp_session", "ssh", "use_ttp" :> "True", Some(RawText))}
    IN {[fn |-> "bgp_sessions.netmiko_processor", cmds |-> cmds,
         conn |-> [device_type |-> dt]] :
           cmds \in {<<Some(c)>> : c \in BgpNetmikoCommands}
                    \cup Unsatisfied("netmiko", "bgp_session", "ssh", "use_genie" :> "True"),
           dt \in NormDeviceTypes}

\* ---- bgp_session over netconf: the items of a PyEZ table view
BgpPyezInputs ==
    LET PyezCounters == {PyNone, PyInt(0), PyInt(80), PyInt(100), PyStr(<<"8", "0">>)}
        BgpPyezItems ==
            {PyDict(<<<<"local_address", PyStr(<<"10.0.0.1", "+", "179">>)>>,
                      <<"peer_address", PyStr(<<"10.0.0.2">>)>>,
                      <<"local_as", PyInt(65000)>>,
                      <<"peer_as", PyInt(65001)>>,
                      <<"peer_id", id>>,
                      <<"local_id", PyStr(<<"10.0.0.1">>)>>,
                      <<"peer_type", PyStr(<<"E", "x", "t", "e", "r", "n", "a", "l">>)>>,
                      <<"prefixes_accepted", accepted>>,
                      <<"prefixes_received", received>>,
                      <<"prefixes_active", accepted>>,
                      <<"prefixes_suppressed", PyNone>>,
                      <<"prefixes_advertised", PyInt(3)>>,
                      <<"peer_state", PyStr(state)>>,
                      <<"flap_count", PyInt(1)>>>>) :
                id \in {PyNone, PyStr(<<"10.0.0.2">>)},
                accepted \in PyezCounters, received \in PyezCounters,
                state \in {<<"E", "s", "t", "a", "b", "l", "i", "s", "h", "e", "d">>, <<"A", "c", "t", "i", "v", "e">>, <<"D", "o", "w", "n">>}}
        BgpPyezCommands ==
            {Executed("pyez", "bgp_session", "netconf", "table" :> "NtcBgpTable", Some(PyList(rows))) :
                rows \in SeqsFromOne(BgpPyezItems, MaxRows - 1)}
            \cup {Executed("pyez", "bgp_session", "netconf", <<>>, Some(PyList(<<RawText>>)))}
    IN {[fn |-> "bgp_sessions.pyez_processor", cmds |-> cmds, conn |-> [device_type |-> dt]] :
           cmds \in {<<Some(c)>> : c \in BgpPyezCommands}
                    \cup Unsatisfied("pyez", "bgp_session", "netconf", "table" :> "NtcBgpTable"),
           dt \in {"juniper_junos"}}

\* ---- lldp_neighbors over ssh
LldpInputs ==
    LET LldpRows ==
            {PyDict(<<<<"neighbor", PyStr(name)>>,
                      <<"local_interface", PyStr(<<"Gi0/1">>)>>,
                      <<"capabilities", PyStr(<<"R">>)>>,
                      <<"neighbor_interface", PyStr(port)>>>>) :
                name \in {<<"core", " ", "sw">>, <<"edge">>},
                port \in {<<"Gi0/2">>, <<>>}}
        LldpCommands ==
            {Executed("netmiko", "lldp_neighbors", "ssh", "use_textfsm" :> "True", Some(PyList(rows))) :
                rows \in SeqsFromOne(LldpRows, MaxRows)}
            \cup {Executed("netmiko", "lldp_neighbors", "ssh", "use_genie" :> "True",
                           Some(PyDict(<<<<"total_entries", PyInt(1)>>>>)))}
            \cup {Executed("netmiko", "lldp_neighbors", "ssh", <<>>, Some(RawText))}
    IN {[fn |-> "lldp_neighbors.netmiko_processor", cmds |-> cmds,
         conn |-> [device_type |-> dt]] :
           cmds \in {<<Some(c)>> : c \in LldpCommands}
                    \cup Unsatisfied("netmiko", "lldp_neighbors", "ssh", "use_textfsm" :> "True"),
           dt \in NormDeviceTypes}

\* ---- vpn_session over ssh: textfsm gives one row whose cells are text or
\* lists of text
VpnInputs ==
    LET VpnCells == {<<"5">>, <<"1", "2">>, <<>>, <<"n", "/", "a">>}
        VpnNames == {<<"A", "n", "y", " ", "C", "o", "n", "n", "e", "c", "t">>, <<"I", "K", "E", "v", "2">>}
        VpnRows ==
            {PyDict(<<<<"vpn_session_name", PyList([i \in DOMAIN names |-> PyStr(names[i])])>>,
                      <<"vpn_session_active", PyList([i \in DOMAIN cells |-> PyStr(cells[i])])>>,
                      <<"vpn_session_cumulative", PyList([i \in DOMAIN cells |-> PyStr(cells[i])])>>,
                      <<"vpn_session_peak_concurrent", PyList([i \in DOMAIN names |-> PyStr(<<"9">>)])>>,
                      <<"vpn_session_inactive", PyList([i \in DOMAIN names |-> PyStr(<<>>)])>>,
                      <<"tunnels_summary_name", PyList([i \in DOMAIN names |-> PyStr(names[i])])>>,
                      <<"tunnels_summary_active", PyList([i \in DOMAIN names |-> PyStr(<<"5">>)])>>,
                      <<"tunnels_summary_cumulative", PyList([i \in DOMAIN names |-> PyStr(<<"5">>)])>>,
                      <<"tunnels_summary_peak_concurrent",
                        PyList([i \in DOMAIN names |-> PyStr(<<"5">>)])>>,
                      <<"total_active_and_inactive", PyStr(total)>>,
                      <<"total_cumulative", PyStr(total)>>,
                      <<"device_total_vpn_capacity", PyStr(<<"2", "5", "0">>)>>,
                      <<"device_load_percent", PyStr(<<"1">>)>>,
                      <<"totals_active", PyStr(<<"5">>)>>,
                      <<"totals_cumulative", PyStr(<<"5">>)>>>>) :
                names \in SeqsUpTo(VpnNames, MaxRows),
                cells \in SeqsUpTo(VpnCells, MaxRows),
                total \in VpnCells}
        VpnCommands ==
            {Executed("netmiko", "vpn_session", "ssh", "use_textfsm" :> "True", Some(PyList(<<row>>))) :
                row \in VpnRows}
            \cup {Executed("netmiko", "vpn_session", "ssh", "use_genie" :> "True",
                           Some(PyDict(<<<<"sessions", PyInt(1)>>>>)))}
            \cup {Executed("netmiko", "vpn_session", "ssh", <<>>, Some(RawText))}
    IN {[fn |-> "vpn_sessions.netmiko_processor", cmds |-> cmds,
         conn |-> [device_type |-> dt]] :
           cmds \in {<<Some(c)>> : c \in VpnCommands}
                    \cup Unsatisfied("netmiko", "vpn_session", "ssh", "use_textfsm" :> "True"),
           dt \in {"cisco_asa", "cisco_ios"}}

\* ---- interface over ssh: genie's dict of interfaces
InterfaceInputs ==
    LET PortChannels ==
            {PyDict(<<<<"port_channel_member", PyBool(FALSE)>>>>),
             PyDict(<<<<"port_channel_member", PyBool(TRUE)>>,
                      <<"port_channel_int", PyStr(<<"Port-channel1">>)>>>>)}
        GenieInterfaceCounters ==
            {PyDict(<<<<"in_pkts", PyInt(10)>>, <<"out_pkts", PyInt(20)>>,
                      <<"rate", PyDict(<<<<"in_rate", PyInt(1000)>>>>)>>>>)}
        GenieInterfaceParams ==
            {PyDict(<<<<"enabled", PyBool(TRUE)>>,
                      <<"oper_status", PyStr(status)>>,
                      <<"mac_address", PyStr(<<"AA", "BB", ".", "CC", "00", ".", "01", "00">>)>>,
                      <<"mtu", PyInt(1500)>>,
                      <<"auto_negotiate", PyBool(TRUE)>>>> \o more \o addrs) :
                status \in {<<"u", "p">>, <<"U", "P">>, <<"d", "o", "w", "n">>},
                more \in {<<>>} \cup {<<<<"port_channel", chan>>>> : chan \in PortChannels}
                         \cup {<<<<"counters", ic>>>> : ic \in GenieInterfaceCounters},
                addrs \in {<<>>,
                           <<<<"ipv4", PyDict(<<<<"10.0.0.1/24",
                                                 PyDict(<<<<"prefix_length", PyStr(<<"24">>)>>>>)>>>>)>>>>}}
            \cup {PyDict(<<<<"enabled", PyBool(FALSE)>>, <<"oper_status", PyStr(<<"d", "o", "w", "n">>)>>>>)}
        GenieInterfaces ==
            {is \in SeqsFromOne({"Gi0/1", "Gi0/2"} \X GenieInterfaceParams, MaxRows - 1) :
                DistinctKeys(is)}
        \* the argument of interfaces.netmiko_processor: a Command, or what a caller
        \* passes in its place (an empty list, None)
        InterfaceArguments ==
            {<<"Command", Executed("netmiko", "interface", "ssh", "use_genie" :> "True", r)>> :
                r \in {Some(PyDict(is)) : is \in GenieInterfaces}
                      \cup {None, Some(PyDict(<<>>)), Some(PyList(<<>>))}}
            \cup {<<"Command",
                    Executed("netmiko", "interface", "ssh", "use_textfsm" :> "True",
                             Some(PyList(<<PyDict(<<<<"interface", PyStr(<<"Gi0/1">>)>>>>)>>)))>>,
                  <<"Command", Executed("netmiko", "interface", "ssh", <<>>, Some(RawText))>>,
                  PyList(<<>>), PyNone}
    IN {[fn |-> "interfaces.netmiko_processor", cmds |-> a, conn |-> [device_type |-> dt]] :
           a \in InterfaceArguments, dt \in {"cisco_xe", "juniper_junos"}}

\* ---- isinty: None, numbers, and every text of up to MaxStr characters
IntyInputs ==
    LET IntyAlphabet == {"4", "2", "-", " ", "x", "."}
    IN {[fn |-> "isinty", value |-> v] :
           v \in {PyNone, PyInt(7), PyInt(0), PyBool(TRUE), PyFloat(3, "3.7"), PyList(<<>>)}
                 \cup {PyStr(chars) : chars \in SeqsUpTo(IntyAlphabet, MaxStr)}}

\* ---- slugify: every name of up to MaxSlug characters over letters of both
\* cases, a letter outside ASCII, punctuation the first pattern removes, "_"
\* and the separators; the default length and two short ones
SlugifyInputs ==
    {[fn |-> "slugify", string |-> string, length |-> length] :
        string \in SeqsUpTo({"a", "B", "U+00E9", "!", "_", "-", ".", " "}, MaxSlug),
        length \in {1, 2, 50}}

\* ---- format_influx_metrics and InfluxMetric.to_line_protocol
InfluxInputs ==
    LET InfluxValues ==
            {PyInt(5), PyInt(0 - 1), PyBool(TRUE), PyBool(FALSE), PyFloat(1, "1.5"), PyNone,
             PyStr(<<"u", "p">>), PyStr(<<"l", "i", "n", "k", " ", "u", "p">>)}
        InfluxKeys == {"rx", "up", "state"}
        \* dicts of up to n items in any insertion order
        Dicts(n) ==
            {items \in SeqsUpTo(InfluxKeys \X InfluxValues, n) : DistinctKeys(items)}
        InfluxTags ==
            {<<>>, <<<<"host", PyStr(<<"r", "1">>)>>>>,
             <<<<"site", PyStr(<<"d", "c", " ", "1">>)>>, <<"vrf", PyNone>>, <<"asn", PyInt(65001)>>>>}
    IN {[fn |-> fn, series |-> "m", data |-> data, tags |-> tags] :
           fn \in {"format_influx_metrics", "to_line_protocol"},
           data \in Dicts(MaxFields), tags \in InfluxTags}

\* ------------------------------------------- normalizer: the specification
\* One call of a processor, of a record's influx_metric on what the
\* processor returned, of the serializer, or of isinty, on arguments drawn
\* from the sets above.
dispatch == <<pc, caller, locals, shared>>

InitNorm ==
    /\ DispatcherIdle
    /\ \/ input \in BgpNetmikoInputs
       \/ input \in BgpPyezInputs
       \/ input \in LldpInputs
       \/ input \in VpnInputs
       \/ input \in InterfaceInputs
       \/ input \in IntyInputs
       \/ input \in SlugifyInputs
       \/ input \in InfluxInputs
    /\ output = NoOutcome

BgpNetmikoProcessor ==
    /\ input.fn = "bgp_sessions.netmiko_processor"
    /\ output.kind = ""
    /\ output' = bgp_netmiko_processor(input.cmds, input.conn)
    /\ UNCHANGED <<input, dispatch>>

BgpPyezProcessor ==
    /\ input.fn = "bgp_sessions.pyez_processor"
    /\ output.kind = ""
    /\ output' = bgp_pyez_processor(input.cmds, input.conn)
    /\ UNCHANGED <<input, dispatch>>

LldpNetmikoProcessor ==
    /\ input.fn = "lldp_neighbors.netmiko_processor"
    /\ output.kind = ""
    /\ output' = lldp_netmiko_processor(input.cmds, input.conn)
    /\ UNCHANGED <<input, dispatch>>

VpnNetmikoProcessor ==
    /\ input.fn = "vpn_sessions.netmiko_processor"
    /\ output.kind = ""
    /\ output' = vpn_netmiko_processor(input.cmds, input.conn)
    /\ UNCHANGED <<input, dispatch>>

InterfacesNetmikoProcessor ==
    /\ input.fn = "interfaces.netmiko_processor"
    /\ output.kind = ""
    /\ output' = interfaces_netmiko_processor(input.cmds, input.conn)
    /\ UNCHANGED <<input, dispatch>>

\* record.influx_metric() on every record a processor returned
InfluxMetric ==
    /\ output.kind = "return"
    /\ output.value[1] = "list"
    /\ output.value[2] # <<>>
    /\ \A i \in DOMAIN output.value[2] : output.value[2][i][1] \in DOMAIN Metrics
    /\ output' = [kind |-> "lines", value |-> output.value, exc |-> None,
                  lines |-> [i \in DOMAIN output.value[2] |->
                                influx_metric(output.value[2][i])]]
    /\ UNCHANGED <<input, dispatch>>

FormatInfluxMetrics ==
    /\ input.fn = "format_influx_metrics"
    /\ output.kind = ""
    /\ output' = Returns(PyStr(format_influx_metrics(input.series, input.data, input.tags)))
    /\ UNCHANGED <<input, dispatch>>

\* InfluxMetric(name=..., tags=..., influx_fields=...).to_line_protocol()
ToLineProtocol ==
    /\ input.fn = "to_line_protocol"
    /\ output.kind = ""
    /\ output' = Returns(PyStr(to_line_protocol(
                    [name |-> input.series, tags |-> input.tags,
                     influx_fields |-> input.data])))
    /\ UNCHANGED <<input, dispatch>>

Isinty ==
    /\ input.fn = "isinty"
    /\ output.kind = ""
    /\ output' = isinty(input.value)
    /\ UNCHANGED <<input, dispatch>>

Slugify ==
    /\ input.fn = "slugify"
    /\ output.kind = ""
    /\ output' = Returns(PyStr(slugify(input.string, input.length)))
    /\ UNCHANGED <<input, dispatch>>

NextNorm ==
    \/ BgpNetmikoProcessor
    \/ BgpPyezProcessor
    \/ LldpNetmikoProcessor
    \/ VpnNetmikoProcessor
    \/ InterfacesNetmikoProcessor
    \/ InfluxMetric
    \/ FormatInfluxMetrics
    \/ ToLineProtocol
    \/ Isinty
    \/ Slugify

SpecNorm == InitNorm /\ [][NextNorm]_vars

\* ------------------------------------------------------------------ claims
Returned(w) == pc[w] = "returned"

TimingSet(c) == c.start_time # None /\ c.timestamp # None /\ c.execution_time # None
Untouched(c) ==
    c.result = None /\ c.start_time = None /\ c.timestamp = None /\ c.execution_time = None

\* execute() returned after the loop was cut short at command idx: a session
\* had been acquired and command idx did not complete
CommandFailed(w) == Returned(w) /\ dev[w] # NoDev /\ idx[w] <= Len(commands[w])

\* C1: commands are executed in list order; if command i fails, every
\* command before i keeps a populated result and timing, no command after i
\* is executed or modified, and the returned error is not None -- for both
\* dispatchers.
C1_AllOrProgress ==
    \A w \in Workers :
        /\ \A k \in DOMAIN sent[w] : sent[w][k].i = k
        /\ CommandFailed(w) =>
              /\ \A j \in 1..(idx[w] - 1) :
                    commands[w][j].result # None /\ TimingSet(commands[w][j])
              /\ \A j \in (idx[w] + 1)..Len(commands[w]) :
                    /\ Untouched(commands[w][j])
                    /\ \A k \in DOMAIN sent[w] : sent[w][k].i # j
              /\ error[w] # None

\* C2: with persist false, when execute returns (batch succeeded or failed)
\* no session handle is held any more: outter_dev is empty, and the handle the
\* call used has been disconnected (Netmiko) or closed (PyEZ).
C2_TornDownWithoutPersist ==
    \A w \in Workers :
        (Returned(w) /\ ~connector[w].persist) =>
            /\ driver[w] = "netmiko" => outter_dev = NoDev
            /\ dev[w] # NoDev => sessions[dev[w]].state # "open"

\* C3: with persist true, the second of two consecutive execute calls to the
\* same device runs on the session handle of the first and connects nothing,
\* for either dispatcher.
C3_PersistReusesSession ==
    \A w \in Workers :
        (/\ Returned(w)
         /\ prev[w] # None
         /\ prev[w][1].driver = driver[w]
         /\ prev[w][1].host = connector[w].host
         /\ prev[w][1].persist
         /\ connector[w].persist
         /\ prev[w][1].dev # NoDev
         /\ dev[w] # NoDev)
        => (dev[w] = prev[w][1].dev /\ connects[w] = 0)

\* C5: the session a call sends its commands on was opened by a connect to
\* the host of that call's connector.
C5_SessionOfTheSameDevice ==
    \A w \in Workers :
        \A k \in DOMAIN sent[w] : sessions[sent[w][k].h].host = connector[w].host

\* C6: under concurrent dispatch to two distinct devices, a worker sends
\* commands only on a handle it acquired itself, and the handle a worker is
\* executing its batch on is not disconnected or cleared by the other worker.
C6_NoSharedSession ==
    \A w \in Workers :
        /\ \A k \in DOMAIN sent[w] : sessions[sent[w][k].h].opener = w
        /\ pc[w] = "nm_loop" => (outter_dev = dev[w] /\ IsOpen(dev[w]))

\* C4: execute of either dispatcher never raises; the returned error is not
\* None, and typed by the dispatcher, exactly when something failed (connect,
\* a command, table resolution, or the release of the session), and the
\* message is non-empty exactly when the error is not None.
SomethingFailed(w) == exc[w] # None \/ idx[w] <= Len(commands[w])

Missing(rq, k) ==
    KeyError(rq.device_type, rq.collectors[k], ExecutorMaps[rq.executor_map])

\* C7: a create_commands call whose request holds a combination absent from
\* the executor map raises CommanderError, whose message names the device
\* type, collector and collection method of the first absent combination; no
\* Command list reaches the caller, even when earlier combinations were
\* valid; a request without absent combination is not rejected; and the call
\* leaves every session and the session slot as they were.
C7_Rejected ==
    \A w \in Workers :
        /\ pc[w] = "rejected" =>
              /\ routing[w].error = Some("CommanderError")
              /\ commands[w] = <<>>
              /\ \E k \in DOMAIN request[w].collectors :
                    /\ Missing(request[w], k)
                    /\ \A j \in 1..(k - 1) : ~Missing(request[w], j)
                    /\ {request[w].device_type, request[w].collectors[k][1],
                        request[w].collectors[k][2]} \subseteq Range(routing[w].msg)
        /\ pc[w] \notin {"idle", "rejected"} =>
              \A k \in DOMAIN request[w].collectors : ~Missing(request[w], k)

Entry(rq, k) ==
    ExecutorMaps[rq.executor_map][<<rq.device_type, rq.collectors[k][1]>>][rq.collectors[k][2]]

Expected(rq, k) ==
    LET d == Entry(rq, k)
    IN [j \in DOMAIN d.commands |->
           [command |-> d.commands[j], executor |-> d.executor,
            params |-> IF "params" \in DOMAIN d THEN d.params ELSE <<>>,
            collector |-> rq.collectors[k][1],
            collection_method |-> rq.collectors[k][2]]]

Carried(c) ==
    [command |-> c.command, executor |-> c.executor, params |-> c.params,
     collector |-> c.collector, collection_method |-> c.collection_method]

\* the returned list is, combination by combination in request order, one
\* Command per command text of the entry in listed order, with the entry's
\* executor and params, the requested collector and method, nothing set
ExpandsCatalog(w) ==
    LET want == Flatten([k \in DOMAIN request[w].collectors |-> Expected(request[w], k)])
    IN /\ Len(commands[w]) = Len(want)
       /\ \A j \in DOMAIN want :
             Carried(commands[w][j]) = want[j] /\ Untouched(commands[w][j])

\* C8 (as stated): for a request whose combinations are all in the catalog,
\* create_commands returns a non-empty list that expands the catalog entries
\* in order.
C8_NonEmptyExpansion ==
    \A w \in Workers :
        pc[w] = "built" => (commands[w] # <<>> /\ ExpandsCatalog(w))

\* C8 (amended): the returned list expands the catalog entries in order, and
\* it is non-empty when the request is non-empty and each requested entry
\* lists at least one command text.
C8_Expansion ==
    \A w \in Workers :
        pc[w] = "built" =>
            /\ ExpandsCatalog(w)
            /\ (/\ request[w].collectors # <<>>
                /\ \A k \in DOMAIN request[w].collectors :
                      Entry(request[w], k).commands # <<>>)
               => commands[w] # <<>>

\* two requested combinations, each with two command texts
C8_Witness ==
    /\ pc[1] = "built"
    /\ Len(request[1].collectors) = 2
    /\ Len(commands[1]) = 4

NotFound == {"no_module", "no_attribute"}

\* C9: the custom registry is looked up first and its table is used whenever
\* it resolves; the built-in registry is looked up exactly when the custom
\* tier answered not-found (module absent, or module without the attribute),
\* and then its table is used when it resolves.
C9_TwoTierOrder ==
    \A w \in Workers :
        lookups[w] # <<>> =>
            /\ lookups[w][1].registry = JUNOS_CUSTOM_MODULES
            /\ Len(lookups[w]) <= 2
            /\ lookups[w][1].answer = "found" =>
                  (table[w] # None /\ table[w][1].registry = JUNOS_CUSTOM_MODULES)
            /\ Len(lookups[w]) = 2 <=> lookups[w][1].answer \in NotFound
            /\ Len(lookups[w]) = 2 =>
                  /\ lookups[w][2].registry = JUNOS_PYEZ_MODULES
                  /\ lookups[w][2].answer = "found" =>
                        (table[w] # None /\ table[w][1].registry = JUNOS_PYEZ_MODULES)

\* the custom module exists without the table; the built-in table is used
C9_Witness ==
    /\ Len(lookups[1]) = 2
    /\ lookups[1][1].answer = "no_attribute"
    /\ table[1] = Some([registry |-> JUNOS_PYEZ_MODULES, name |-> "NtcBgpTable"])
    /\ pc[1] = "pz_get"

\* both tiers answered not-found and execute is about to leave the with block
BothTiersFail(w) ==
    /\ pc[w] = "pz_exit" /\ exc[w] = None
    /\ Len(lookups[w]) = 2 /\ lookups[w][2].answer \in NotFound

\* C10: when both tiers fail, the error tells "module not found" from "table
\* not found", and in both cases the message names the protocol and the
\* table.
C10_ResolutionErrorNamesBoth ==
    \A w \in Workers :
        BothTiersFail(w) =>
            LET c == commands[w][idx[w]]
            IN /\ error[w] = Some("PyezError")
               /\ lookups[w][2].answer = "no_module" =>
                     msg[w][1] = "Driver execution failed: Module "
               /\ lookups[w][2].answer = "no_attribute" =>
                     msg[w][1] = "Driver execution failed: Table "
               /\ Protocol(c.collector) \in Range(msg[w])
               /\ c.params["table"] \in Range(msg[w])

\* C11: every command a dispatch call has executed successfully (its result
\* is set) has start, end and duration set, with either dispatcher and in
\* every mode (Netmiko, PyEZ table retrieval, PyEZ direct query).
C11_ExecutedHasTiming ==
    \A w \in Workers :
        \A k \in DOMAIN commands[w] :
            commands[w][k].result # None => TimingSet(commands[w][k])

\* the previous execute call of w was a Netmiko call with persist true that
\* had a session and stopped before the end of its batch
PrevFailedWithPersist(w) ==
    /\ prev[w] # None
    /\ prev[w][1].driver = "netmiko"
    /\ prev[w][1].persist
    /\ prev[w][1].dev # NoDev
    /\ prev[w][1].failed

\* a Netmiko call with persist true keeps its handle in the slot when it
\* returns, failed or not; the call after a failed one runs on that handle
\* and connects nothing
C17_KeptAndReused ==
    \A w \in Workers :
        /\ (Returned(w) /\ driver[w] = "netmiko" /\ connector[w].persist
                /\ dev[w] # NoDev)
           => (outter_dev = dev[w] /\ sessions[dev[w]].state # "closed")
        /\ (pc[w] \in {"nm_loop", "nm_exit", "nm_clear", "returned"}
                /\ driver[w] = "netmiko" /\ PrevFailedWithPersist(w))
           => (/\ dev[w] = prev[w][1].dev
               /\ connects[w] = 0
               /\ \A k \in DOMAIN sent[w] : sent[w][k].h = prev[w][1].dev)

\* C17: when a Netmiko execute call with persist true fails part-way through
\* its batch, the session handle stays in the slot, the next execute call
\* runs its commands on that handle without connecting, and the handle in
\* the slot is disconnected or dropped only by the __exit__ of a call with
\* persist false.
C17_ReleasedPerPersistPolicy ==
    /\ []C17_KeptAndReused
    /\ [][\A h \in DOMAIN sessions :
            (/\ h = outter_dev
             /\ \/ outter_dev' # h
                \/ h \notin DOMAIN sessions'
                \/ sessions'[h].state # sessions[h].state)
            => \E w \in Workers :
                  /\ pc[w] \in {"nm_exit", "nm_clear"}
                  /\ ~connector[w].persist]_vars

\* a persist call failed at its second command; the next call has sent a
\* command on the kept handle; it is the first connect that opened it
C17_Witness ==
    /\ PrevFailedWithPersist(1)
    /\ driver[1] = "netmiko"
    /\ Returned(1)
    /\ sent[1] # <<>>
    /\ sent[1][1].h = prev[1][1].dev
    /\ connects[1] = 0

\* ---- claims about the normalizer
\* the processors that take the list of commands, and the error class of each
ListProcessors ==
    ("bgp_sessions.netmiko_processor" :> "BgpSessionError")
 @@ ("bgp_sessions.pyez_processor" :> "BgpSessionError")
 @@ ("lldp_neighbors.netmiko_processor" :> "LLDPNeighborError")
 @@ ("vpn_sessions.netmiko_processor" :> "VpnSessionsError")

Called == output.kind # ""
Raised(type, text) == output.kind = "raise" /\ output.exc = Some([type |-> type, text |-> text])

\* a processor was called with an empty list of commands
NoCommandGiven ==
    \/ input.fn \in DOMAIN ListProcessors /\ input.cmds = <<>>
    \/ input.fn = "interfaces.netmiko_processor" /\ input.cmds = PyList(<<>>)

\* a processor was called with a command whose result is unset or empty
NoResultGiven ==
    \/ /\ input.fn \in DOMAIN ListProcessors
       /\ input.cmds # <<>>
       /\ input.cmds[1] # None
       /\ \/ input.cmds[1][1].result = None
          \/ ~Truthy(input.cmds[1][1].result[1])
    \/ /\ input.fn = "interfaces.netmiko_processor"
       /\ input.cmds[1] = "Command"
       /\ \/ input.cmds[2].result = None
          \/ ~Truthy(input.cmds[2].result[1])

ErrorClassOf(fn) ==
    IF fn \in DOMAIN ListProcessors THEN ListProcessors[fn] ELSE "InterfacesError"

\* C12: a processor called with an empty command list fails with its
\* resource's error "No command found", and one called with a command whose
\* result is unset or empty fails with its resource's error "No result
\* returned in Command"; in neither case does it return or raise anything
\* else.
C12_PreconditionErrors ==
    /\ (Called /\ NoCommandGiven)
          => Raised(ErrorClassOf(input.fn), <<"No command found">>)
    /\ (Called /\ NoResultGiven)
          => Raised(ErrorClassOf(input.fn), <<"No result returned in Command">>)

\* the command a processor was given, once its preconditions hold
PreconditionsHold ==
    /\ input.fn \in DOMAIN ListProcessors \cup {"interfaces.netmiko_processor"}
    /\ ~NoCommandGiven
    /\ ~NoResultGiven
    /\ input.fn \in DOMAIN ListProcessors => input.cmds[1] # None
    /\ input.fn = "interfaces.netmiko_processor" => input.cmds[1] = "Command"

GivenCommand ==
    IF input.fn = "interfaces.netmiko_processor" THEN input.cmds[2] ELSE input.cmds[1][1]

\* the device types and parse hints each processor has a branch for
\* (an empty set: the processor does not look at it)
Handled ==
    ("bgp_sessions.netmiko_processor" :>
        [devices |-> {"cisco_ios", "cisco_xe"}, hints |-> {"use_textfsm", "use_genie"}])
 @@ ("bgp_sessions.pyez_processor" :> [devices |-> {}, hints |-> {"table"}])
 @@ ("lldp_neighbors.netmiko_processor" :>
        [devices |-> {"cisco_ios", "cisco_xe"}, hints |-> {"use_textfsm"}])
 @@ ("vpn_sessions.netmiko_processor" :> [devices |-> {"cisco_asa"}, hints |-> {}])
 @@ ("interfaces.netmiko_processor" :> [devices |-> {}, hints |-> {"use_genie"}])

UnhandledDevice ==
    /\ Handled[input.fn].devices # {}
    /\ input.conn.device_type \notin Handled[input.fn].devices

UnhandledHint ==
    /\ Handled[input.fn].hints # {}
    /\ \A h \in Handled[input.fn].hints : ~Hint(GivenCommand, h)

\* the message carries the device type, a parse hint, the executor, the
\* collector or the collection method of the call
NamesCombination(text) ==
    \E i \in DOMAIN text :
        text[i] \in {input.conn.device_type, GivenCommand.executor, GivenCommand.collector,
                     GivenCommand.collection_method}
                    \cup DOMAIN GivenCommand.params

\* C13: a processor given a device type or a parse hint it has no branch for
\* raises NotImplementedError with a message that names the unsupported
\* combination, and returns no list.
C13_NotImplementedNamesCombination ==
    (Called /\ PreconditionsHold /\ (UnhandledDevice \/ UnhandledHint))
        => /\ output.kind = "raise"
           /\ output.exc[1].type = "NotImplementedError"
           /\ NamesCombination(output.exc[1].text)

\* the text the line protocol asks for, by the type of the value
RenderedField(key, value) ==
    CASE value[1] = "bool" -> <<key, IF value[2] THEN "=true" ELSE "=false">>
      [] value[1] = "int" -> <<key, "=">> \o IntChars(value[2]) \o <<"i">>
      [] value[1] = "str" ->
            <<key, "=", "\"">>
            \o Flatten([i \in DOMAIN value[2] |->
                           IF value[2][i] = " " THEN <<"\\", " ">> ELSE <<value[2][i]>>])
            \o <<"\"">>
      [] value[1] = "float" -> <<key, "=", value[2][2]>>

RenderedTag(key, value) ==
    CASE value[1] = "NoneType" -> <<>>
      [] value[1] = "str" ->
            <<",", key, "=">>
            \o Flatten([i \in DOMAIN value[2] |->
                           IF value[2][i] = " " THEN <<"\\", " ">> ELSE <<value[2][i]>>])
      [] value[1] = "int" -> <<",", key, "=">> \o IntChars(value[2])

\* the fields in insertion order, a comma between two of them
RenderedFields(data) ==
    Flatten([i \in DOMAIN data |->
                (IF i > 1 THEN <<",">> ELSE <<>>) \o RenderedField(data[i][1], data[i][2])])

RenderedLine(series, data, tags) ==
    <<series>> \o Flatten([i \in DOMAIN tags |-> RenderedTag(tags[i][1], tags[i][2])])
    \o <<" ">> \o RenderedFields(data)

NoNullField(data) == \A i \in DOMAIN data : data[i][2][1] # "NoneType"

\* C14: for fields that are all present, format_influx_metrics gives the
\* series, the tags and the fields in insertion order, an integer field as
\* <key>=<n>i, a boolean field as <key>=true or <key>=false, a string field
\* quoted with its spaces escaped by a backslash, any other number as it
\* prints.
C14_FieldsRenderedByType ==
    (Called /\ input.fn = "format_influx_metrics" /\ NoNullField(input.data))
        => output = Returns(PyStr(RenderedLine(input.series, input.data, input.tags)))

\* the keys of a dict whose value is None
NullKeys(items) == {items[i][1] : i \in {j \in DOMAIN items : items[j][2][1] = "NoneType"}}

\* the line carries neither the key nor the text of a None
OmitsNulls(line, items) ==
    \A i \in DOMAIN line : line[i] \notin NullKeys(items) \cup {"None"}

\* C15: the line format_influx_metrics and InfluxMetric.to_line_protocol
\* return carries no tag and no field whose value is None, and neither does
\* the line the influx_metric method of a record returns.
C15_NoNullSerialized ==
    /\ (Called /\ input.fn \in {"format_influx_metrics", "to_line_protocol"})
          => /\ OmitsNulls(output.value[2], input.tags)
             /\ OmitsNulls(output.value[2], input.data)
    /\ output.kind = "lines"
          => \A i \in DOMAIN output.lines :
                OmitsNulls(output.lines[i], output.value[2][i][2])

\* the record classes and the classes nested in them, by name
Models ==
    [name \in {"BgpSession", "LLDPNeighbor", "AsaVpnStats", "AsaTunnelStats",
               "AsaGlobalStats", "Interface", "PortChannel", "InterfaceIP",
               "InterfaceCounters"} |->
        CASE name = "BgpSession" -> BgpSession
          [] name = "LLDPNeighbor" -> LLDPNeighbor
          [] name = "AsaVpnStats" -> AsaVpnStats
          [] name = "AsaTunnelStats" -> AsaTunnelStats
          [] name = "AsaGlobalStats" -> AsaGlobalStats
          [] name = "Interface" -> Interface
          [] name = "PortChannel" -> PortChannel
          [] name = "InterfaceIP" -> InterfaceIP
          [] name = "InterfaceCounters" -> InterfaceCounters]

Declared(name) == {Models[name].fields[i].name : i \in DOMAIN Models[name].fields}

\* a record and the model objects it holds, directly or in a list
Held(record) ==
    LET values == {record[2][i][2] : i \in DOMAIN record[2]}
        lists == {v \in values : v[1] = "list"}
    IN {record}
       \cup {v \in values : v[1] \in DOMAIN Models}
       \cup UNION {{l[2][i] : i \in DOMAIN l[2]} : l \in lists}

OnlyDeclared(object) == Keys(object[2]) \subseteq Declared(object[1])

\* C16: every record a processor returns, and every model object nested in
\* it (the port-channel of an interface included), stores declared fields
\* only: a key of the raw input that is no declared field is absent.
C16_UnknownFieldsDropped ==
    (output.kind = "return" /\ output.value[1] = "list")
        => \A i \in DOMAIN output.value[2] :
              \A object \in Held(output.value[2][i]) : OnlyDeclared(object)

\* the BGP states in the order of their codes 1..6
CodedStates ==
    <<<<"i", "d", "l", "e">>, <<"c", "o", "n", "n", "e", "c", "t">>,
      <<"a", "c", "t", "i", "v", "e">>, <<"o", "p", "e", "n", "s", "e", "n", "t">>,
      <<"o", "p", "e", "n", "c", "o", "n", "f", "i", "r", "m">>,
      <<"e", "s", "t", "a", "b", "l", "i", "s", "h", "e", "d">>>>

\* two characters that differ at most in case
SameLetter(a, b) ==
    a = b \/ \E i \in DOMAIN UpperCase : {a, b} = {UpperCase[i], LowerCase[i]}

SameWord(a, b) ==
    Len(a) = Len(b) /\ \A i \in DOMAIN a : SameLetter(a[i], b[i])

CodeOf(state) ==
    IF \E k \in DOMAIN CodedStates : SameWord(state, CodedStates[k])
    THEN PyInt(CHOOSE k \in DOMAIN CodedStates : SameWord(state, CodedStates[k]))
    ELSE PyNone

\* the state names of the rows a BGP processor was given, in the order of
\* the rows (flat rows, the neighbors of the nested tree, table rows)
GivenStates ==
    LET result == GivenCommand.result[1]
        vrfs == IF "vrf" \in Keys(result[2]) THEN Item(result[2], "vrf")[2] ELSE <<>>
    IN IF input.fn = "bgp_sessions.pyez_processor"
       THEN [i \in DOMAIN result[2] |-> Item(result[2][i][2], "peer_state")[2]]
       ELSE IF Hint(GivenCommand, "use_textfsm")
       THEN [i \in DOMAIN result[2] |-> Item(result[2][i][2], "bgp_state")[2]]
       ELSE Flatten([v \in DOMAIN vrfs |->
                [n \in DOMAIN Item(vrfs[v][2][2], "neighbor")[2] |->
                    Item(Item(vrfs[v][2][2], "neighbor")[2][n][2][2], "session_state")[2]]])

BgpCalled ==
    /\ Called
    /\ output.kind # "lines"
    /\ input.fn \in {"bgp_sessions.netmiko_processor", "bgp_sessions.pyez_processor"}
    /\ PreconditionsHold
    /\ ~UnhandledDevice
    /\ ~UnhandledHint

\* C18: a BGP processor given rows of a shape it handles returns one
\* BgpSession per row, whose session_state is the row's state in lower case
\* and whose session_state_code is the code of that state compared without
\* regard to case (idle 1, connect 2, active 3, opensent 4, openconfirm 5,
\* established 6), None for any other state; it does not raise.
C18_StateCodeCaseInsensitive ==
    BgpCalled =>
        /\ output.kind = "return"
        /\ Len(output.value[2]) = Len(GivenStates)
        /\ \A i \in DOMAIN GivenStates :
              /\ SameWord(Item(output.value[2][i][2], "session_state")[2], GivenStates[i])
              /\ \A k \in DOMAIN GivenStates[i] :
                    Item(output.value[2][i][2], "session_state")[2][k]
                        \notin {UpperCase[u] : u \in DOMAIN UpperCase}
              /\ Item(output.value[2][i][2], "session_state_code") = CodeOf(GivenStates[i])

\* a flat-rows call returned two sessions: "ESTABLISHED" with code 6 and
\* "Down" with no code
C18_Witness ==
    /\ BgpCalled
    /\ output.kind = "return"
    /\ Hint(GivenCommand, "use_textfsm")
    /\ Len(GivenStates) = 2
    /\ GivenStates[1] = <<"E", "S", "T", "A", "B", "L", "I", "S", "H", "E", "D">>
    /\ Item(output.value[2][1][2], "session_state_code") = PyInt(6)
    /\ GivenStates[2] = <<"D", "o", "w", "n">>
    /\ Item(output.value[2][2][2], "session_state_code") = PyNone

\* the number a counter of a table row stands for, 0 when it is absent
Counted(value) ==
    CASE value[1] = "NoneType" -> 0
      [] value[1] = "int" -> value[2]
      [] value[1] = "str" -> DigitsValue(value[2], 0)

PyezCalled == BgpCalled /\ input.fn = "bgp_sessions.pyez_processor"

GivenRows == GivenCommand.result[1][2]

\* C19: for every row of a PyEZ table the returned BgpSession has
\* prefixes_denied = received (pre policy) - accepted, an absent accepted
\* count standing for 0 in the subtraction (denied is then the received
\* count), and the processor does not raise whichever counters are absent.
C19_DeniedIsReceivedMinusAccepted ==
    PyezCalled =>
        /\ output.kind = "return"
        /\ Len(output.value[2]) = Len(GivenRows)
        /\ \A i \in DOMAIN GivenRows :
              LET received == Item(GivenRows[i][2], "prefixes_received")
                  accepted == Item(GivenRows[i][2], "prefixes_accepted")
                  denied == Item(output.value[2][i][2], "prefixes_denied")
              IN /\ denied = PyInt(Counted(received) - Counted(accepted))
                 /\ accepted = PyNone => denied = PyInt(Counted(received))

\* a table row with 100 received and 80 accepted gave a session with 20
\* denied
C19_Witness ==
    /\ PyezCalled
    /\ output.kind = "return"
    /\ Item(GivenRows[1][2], "prefixes_received") = PyInt(100)
    /\ Item(GivenRows[1][2], "prefixes_accepted") = PyInt(80)
    /\ Item(output.value[2][1][2], "prefixes_denied") = PyInt(20)

\* C20: isinty returns for every value: the integer when the value parses
\* as one, None otherwise (a text that is no number, an empty text, None);
\* it never raises and never gives 0 for a value that is no number.
C20_IsintyNeverFails ==
    (Called /\ input.fn = "isinty")
        => /\ output.kind = "return"
           /\ output.value[1] \in {"int", "NoneType"}
           /\ input.value[1] \in {"NoneType", "list"} => output.value = PyNone
           /\ (input.value[1] = "str" /\ ~IsDigits(Unsigned(input.value[2])))
                 => output.value = PyNone

SlugifyCalled == Called /\ input.fn = "slugify"

\* C21: slugify gives the same text when it is applied to its own output,
\* and its output is in lower case, ASCII only, no longer than the length
\* asked for, and has no whitespace, no "." and no two "-" in a row.
C21_SlugifyIdempotentWellFormed ==
    SlugifyCalled =>
        LET slug == output.value[2]
        IN /\ slugify(slug, input.length) = slug
           /\ Len(slug) <= input.length
           /\ \A i \in DOMAIN slug :
                 /\ slug[i] \notin Range(UpperCase)
                 /\ slug[i] \notin NonAscii
                 /\ slug[i] \notin Whitespace \cup {"."}
                 /\ i > 1 => ~(slug[i] = "-" /\ slug[i - 1] = "-")

\* the line ends with the separating space: nothing follows it
NoFieldSet(line) == line[Len(line)] = " "

\* C22: every line the influx_metric method of a record returned by a
\* processor gives has at least one field after the space that separates
\* the tags from the fields.
C22_LinesCarryAField ==
    output.kind = "lines" => \A i \in DOMAIN output.lines : ~NoFieldSet(output.lines[i])

\* C23: any two Command instances built by create_commands, in one call or
\* in two calls, have different id values.
C23_DistinctIds ==
    \A w, v \in Workers :
        \A i \in DOMAIN commands[w], j \in DOMAIN commands[v] :
            <<w, i>> # <<v, j>> => commands[w][i].id # commands[v][j].id

====
